---- MODULE Spec2Model ----
(***************************************************************************)
(* Training pipeline dashboard: graph canvas, interaction controller,      *)
(* connection router and status overlay.                                   *)
(*                                                                         *)
(* Numbers of the program are JavaScript numbers.  They are modelled as    *)
(* exact rationals [n |-> numerator, d |-> denominator] in lowest terms,   *)
(* so that division by the zoom scale, Math.round and the clamps are       *)
(* computed rather than assumed.                                           *)
(***************************************************************************)
EXTENDS Integers, Sequences, FiniteSets, TLC

\* ------------------------------------------------------------------------
\* Rational arithmetic
\* ------------------------------------------------------------------------

Abs(i) == IF i < 0 THEN -i ELSE i

RECURSIVE GCD(_, _)
GCD(a, b) == IF b = 0 THEN a ELSE GCD(b, a % b)

\* The rational n/d (d # 0) in lowest terms with a positive denominator.
Rat(n, d) ==
    LET s == IF d < 0 THEN -1 ELSE 1
        g == GCD(Abs(n), Abs(d))
    IN  [n |-> (s * n) \div g, d |-> (s * d) \div g]

R(i) == [n |-> i, d |-> 1]

RAdd(a, b) == Rat(a.n * b.d + b.n * a.d, a.d * b.d)
RSub(a, b) == Rat(a.n * b.d - b.n * a.d, a.d * b.d)
RMul(a, b) == Rat(a.n * b.n, a.d * b.d)
RDiv(a, b) == Rat(a.n * b.d, a.d * b.n)
RLe(a, b) == a.n * b.d <= b.n * a.d
RMax(a, b) == IF RLe(a, b) THEN b ELSE a
RMin(a, b) == IF RLe(a, b) THEN a ELSE b
RAbs(a) == [n |-> Abs(a.n), d |-> a.d]
IsInt(a) == a.d = 1

\* Math.round: the nearest integer, a tie going up (floor(v + 1/2)).
MathRound(v) == R((2 * v.n + v.d) \div (2 * v.d))

\* ------------------------------------------------------------------------
\* Program constants
\* ------------------------------------------------------------------------

\* null / undefined
NULL == [null |-> TRUE]

\* nodes.js NODE_DIMENSIONS
NODE_WIDTH == 220
NODE_HEIGHT == 104
NODE_DIMENSIONS == [width |-> R(NODE_WIDTH), height |-> R(NODE_HEIGHT)]

\* drag.js MIN_ZOOM = 0.5, MAX_ZOOM = 1.9
MIN_ZOOM == Rat(1, 2)
MAX_ZOOM == Rat(19, 10)

\* app.js: the transform of a fresh page and of every view switch.
DefaultTransform == [x |-> R(70), y |-> R(50), scale |-> Rat(9, 10)]

\* app.js TYPE_META keys
TYPE_META == {"pi", "function", "agent", "tool"}

\* clamp without its upper bound.
clampLowerOnly(value, min, max) == RMax(min, value)

\* drag.js clamp
clamp(value, min, max) == RMax(min, RMin(max, value))

\* app.js clamp (same body, its own copy)
appClamp(value, min, max) == RMax(min, RMin(max, value))

\* ------------------------------------------------------------------------
\* Layout documents (dashboard-layout.json) the page may be given
\* ------------------------------------------------------------------------

Node(type, x, y) == [type |-> type, x |-> R(x), y |-> R(y)]
Conn(id, from, to) == [id |-> id, from |-> from, to |-> to]

\* Two views; canvases a few pixels larger than a node, so that a drag of a
\* few pixels reaches both clamps.  Node id "A" exists in both views (ids
\* are unique within a view only).  Connection e2 names a node of no view.
LayoutRegular ==
    [views |-> <<
        [id |-> "v1", canvas |-> [width |-> R(223), height |-> R(106)],
         groups |-> <<"g1", "g2">>,
         nodes |-> [A |-> Node("pi", 0, 0), B |-> Node("tool", 3, 2)],
         connections |-> <<Conn("e1", "A", "B"), Conn("e2", "B", "Z")>>],
        [id |-> "v2", canvas |-> [width |-> R(222), height |-> R(105)],
         groups |-> <<"g3">>,
         nodes |-> [A |-> Node("function", 1, 0), C |-> Node("agent", 2, 1)],
         connections |-> <<Conn("e3", "C", "A")>>] >>]

\* A layout whose second view places node C outside its canvas.
LayoutOutside ==
    [views |-> <<
        [id |-> "v1", canvas |-> [width |-> R(223), height |-> R(106)],
         groups |-> << >>,
         nodes |-> [A |-> Node("pi", 1, 1)],
         connections |-> << >>],
        [id |-> "v2", canvas |-> [width |-> R(223), height |-> R(106)],
         groups |-> << >>,
         nodes |-> [C |-> Node("tool", 9, 0)],
         connections |-> << >>] >>]

\* A layout with a canvas narrower than a node (view 1) and a canvas of
\* fractional size 223.5 x 106.5 (view 2).
LayoutOddCanvas ==
    [views |-> <<
        [id |-> "v1", canvas |-> [width |-> R(218), height |-> R(106)],
         groups |-> << >>,
         nodes |-> [A |-> Node("pi", 0, 0)],
         connections |-> << >>],
        [id |-> "v2", canvas |-> [width |-> Rat(447, 2), height |-> Rat(213, 2)],
         groups |-> << >>,
         nodes |-> [C |-> Node("tool", 1, 1)],
         connections |-> << >>] >>]

\* Layouts whose canvases have integer sides longer than a node's.
Layouts == {LayoutRegular, LayoutOutside}

\* Every layout, the odd canvases included.
AllLayouts == Layouts \cup {LayoutOddCanvas}

\* ------------------------------------------------------------------------
\* Inputs of the events
\* ------------------------------------------------------------------------

\* Pointer ids of the pointers that touch the canvas (two fingers, or a
\* mouse and a finger).
PointerIds == {1, 2}

\* How many position- or transform-changing events (matching pointermoves,
\* wheel events) a run may hold.
MaxMoves == 2

\* The same for the runs with two pointers.
MaxPointerMoves == 1

\* Fetches of one snapshot file in a session.
MaxFetches == 2

\* Trainer API requests in a session.
MaxRequests == 3

\* clientX / clientY of pointer and wheel events.
Points == {[x |-> R(8), y |-> R(4)], [x |-> R(10), y |-> R(5)]}

\* canvasWrapper.getBoundingClientRect()
Rect == [left |-> R(8), top |-> R(4)]

\* Math.exp(-event.deltaY * 0.0014): a positive factor, below 1 for a wheel
\* down, above 1 for a wheel up, 1 for deltaY = 0.
WheelFactors == {Rat(1, 2), R(1), R(2)}

\* Legend chips the user clicks.
ToggleTypes == {"tool"}

\* ------------------------------------------------------------------------
\* State
\* ------------------------------------------------------------------------

VARIABLES
    layout,            \* state.layout: the views; node x, y are mutable
    activeViewIndex,   \* state.activeViewIndex (1-based)
    activeTypes,       \* state.activeTypes
    transform,         \* state.transform
    nodeMap,           \* state.nodeMap: index of the view whose node objects it holds
    nodeElements,      \* state.nodeElements: node id -> rendered node card
    strokes,           \* children of lineGroup: the rendered connection paths
    runtime,           \* state.runtime
    trainerLiveNodes,  \* state.trainerLiveNodes
    nodeDrag,          \* drag.js closure variable
    panDrag,           \* drag.js closure variable
    capture,           \* pointer ids captured by canvasWrapper
    pointers,          \* environment: what each pointer is pressing
    budget,            \* position/transform-changing events left
    runtimeLive,       \* state.runtimeLive
    runHistoryIndex,   \* state.runHistoryIndex
    runSnapshots,      \* state.runSnapshots: file key -> memoized snapshot
    currentRunSelect,  \* currentRunSelectEl.value
    baselineRunSelect, \* baselineRunSelectEl.value
    selections,        \* the applyRunSelection calls waiting for a snapshot file
    fetchLog,          \* environment: fetches issued and answered, per snapshot file
    comparisonRows,    \* children of comparisonMetricsEl
    checklistList,     \* children of checklistListEl
    checklistSummary,  \* checklistSummaryEl.textContent: passed/total
    trainerPollId,     \* state.trainerPollId
    timers,            \* environment: the interval timers of the window
    trainerApiAvailable, \* state.trainerApiAvailable
    trainJobState,     \* trainJobStateEl.dataset.state: the job-state badge
    trainControlsEnabled, \* the upload, run and stop controls are enabled
    lastTrainerCompletion, \* state.lastTrainerCompletion
    requests,          \* trainer API requests in flight
    issued,            \* environment: trainer API requests issued so far
    statusLog,         \* environment: the newest status request answered so far, and
                       \* whether one has failed with no user request since
    refresh,           \* position of refreshRuntimeFromFiles
    init,              \* position of init()
    tabs,              \* children of tabsEl
    legend,            \* children of legendEl: the types of the chips
    groups,            \* children of groupLayer
    listeners          \* event types canvasWrapper has a listener for

\* The run panels and the trainer panel.
panelVars == <<runtimeLive, runHistoryIndex, runSnapshots, currentRunSelect,
               baselineRunSelect, selections, fetchLog, comparisonRows, checklistList,
               checklistSummary, trainerPollId, timers, trainerApiAvailable, trainJobState,
               trainControlsEnabled, lastTrainerCompletion, requests, issued,
               statusLog, refresh>>

\* What init() renders around the graph, and the listeners it installs.
pageVars == <<tabs, legend, groups, listeners>>

\* The graph canvas and its pointer sessions.
canvasVars == <<layout, activeViewIndex, activeTypes, transform, nodeMap, nodeDrag,
                panDrag, capture, pointers, budget, pageVars>>

vars == <<layout, activeViewIndex, activeTypes, transform, nodeMap, nodeElements,
          strokes, runtime, trainerLiveNodes, nodeDrag, panDrag, capture,
          pointers, budget, panelVars, init, pageVars>>

\* ------------------------------------------------------------------------
\* Status overlay (app.js) and connection router (connections.js)
\* ------------------------------------------------------------------------

\* JavaScript's entry?.status || "idle": an absent or null entry, or a
\* missing or empty status (""), gives "idle".
StatusOf(nodeStates, id) ==
    IF id \notin DOMAIN nodeStates THEN "idle"
    ELSE IF nodeStates[id] = NULL THEN "idle"
    ELSE IF nodeStates[id].status = "" THEN "idle"
    ELSE nodeStates[id].status

\* The spread with its operands swapped: the snapshot's entry wins.
SpreadLeftBiased(baseNodes, liveNodes) ==
    [id \in DOMAIN baseNodes \cup DOMAIN liveNodes |->
        IF id \in DOMAIN baseNodes THEN baseNodes[id] ELSE liveNodes[id]]

\* { ...baseNodes, ...liveNodes }
Spread(baseNodes, liveNodes) ==
    [id \in DOMAIN baseNodes \cup DOMAIN liveNodes |->
        IF id \in DOMAIN liveNodes THEN liveNodes[id] ELSE baseNodes[id]]

EmptyObject == [id \in {} |-> NULL]

getEffectiveRuntimeNodesOf(rt, liveNodes) ==
    LET baseNodes == IF rt # NULL /\ rt.nodes # NULL THEN rt.nodes ELSE EmptyObject
    IN  IF liveNodes = NULL THEN baseNodes ELSE Spread(baseNodes, liveNodes)

getEffectiveRuntimeNodes == getEffectiveRuntimeNodesOf(runtime, trainerLiveNodes)

\* getAnchorPair taking every connection to run from left to right.
getAnchorPairLeftToRight(source, target) ==
    LET half == RDiv(NODE_DIMENSIONS.height, R(2))
    IN  [startX |-> RAdd(source.x, NODE_DIMENSIONS.width),
         startY |-> RAdd(source.y, half),
         endX   |-> target.x,
         endY   |-> RAdd(target.y, half)]

getAnchorPair(source, target) ==
    LET half == RDiv(NODE_DIMENSIONS.height, R(2))
        isLeftToRight == RLe(source.x, target.x)
    IN  [startX |-> IF isLeftToRight THEN RAdd(source.x, NODE_DIMENSIONS.width) ELSE source.x,
         startY |-> RAdd(source.y, half),
         endX   |-> IF isLeftToRight THEN target.x ELSE RAdd(target.x, NODE_DIMENSIONS.width),
         endY   |-> RAdd(target.y, half)]

\* getBezierPath with the curve magnitude left unclamped.
getBezierPathUnclamped(source, target) ==
    LET anchors == getAnchorPair(source, target)
        horizontal == RAbs(RSub(anchors.endX, anchors.startX))
        vertical == RAbs(RSub(anchors.endY, anchors.startY))
        direction == IF RLe(anchors.startX, anchors.endX) THEN R(1) ELSE R(-1)
        curve == RAdd(RMul(horizontal, Rat(1, 2)), RMul(vertical, Rat(1, 5)))
    IN  [startX |-> anchors.startX, startY |-> anchors.startY,
         control1X |-> RAdd(anchors.startX, RMul(curve, direction)),
         control1Y |-> anchors.startY,
         control2X |-> RSub(anchors.endX, RMul(curve, direction)),
         control2Y |-> anchors.endY,
         endX |-> anchors.endX, endY |-> anchors.endY]

\* The path "M sx sy C c1x sy, c2x ey, ex ey" as the record of its numbers.
getBezierPath(source, target) ==
    LET anchors == getAnchorPair(source, target)
        horizontal == RAbs(RSub(anchors.endX, anchors.startX))
        vertical == RAbs(RSub(anchors.endY, anchors.startY))
        direction == IF RLe(anchors.startX, anchors.endX) THEN R(1) ELSE R(-1)
        curve == RMax(R(80), RMin(R(290),
                     RAdd(RMul(horizontal, Rat(1, 2)), RMul(vertical, Rat(1, 5)))))
    IN  [startX |-> anchors.startX, startY |-> anchors.startY,
         control1X |-> RAdd(anchors.startX, RMul(curve, direction)),
         control1Y |-> anchors.startY,
         control2X |-> RSub(anchors.endX, RMul(curve, direction)),
         control2Y |-> anchors.endY,
         endX |-> anchors.endX, endY |-> anchors.endY]

\* The flow state with the one-end-done rule tested before the both-done rule.
deriveConnectionStateAnyDone(connection, runtimeNodes) ==
    IF runtimeNodes = NULL THEN "idle"
    ELSE
    LET sourceStatus == StatusOf(runtimeNodes, connection.from)
        targetStatus == StatusOf(runtimeNodes, connection.to)
        statuses == {sourceStatus, targetStatus}
    IN  IF "fail" \in statuses THEN "fail"
        ELSE IF "running" \in statuses THEN "running"
        ELSE IF "done" \in statuses THEN "running"
        ELSE IF sourceStatus = "done" /\ targetStatus = "done" THEN "done"
        ELSE "idle"

deriveConnectionState(connection, runtimeNodes) ==
    IF runtimeNodes = NULL THEN "idle"
    ELSE
    LET sourceStatus == StatusOf(runtimeNodes, connection.from)
        targetStatus == StatusOf(runtimeNodes, connection.to)
        statuses == {sourceStatus, targetStatus}
    IN  IF "fail" \in statuses THEN "fail"
        ELSE IF "running" \in statuses THEN "running"
        ELSE IF sourceStatus = "done" /\ targetStatus = "done" THEN "done"
        ELSE IF "done" \in statuses THEN "running"
        ELSE "idle"

\* renderConnections without the primary strokes.
renderConnectionsEchoOnly(connections, nodes, types, runtimeNodes) ==
    LET Resolved(c) == c.from \in DOMAIN nodes /\ c.to \in DOMAIN nodes
        kept == SelectSeq(connections, Resolved)
    IN  [i \in 1..Len(kept) |->
            [class |-> "connection-line echo",
             d |-> getBezierPath(nodes[kept[i].from], nodes[kept[i].to]),
             state |-> deriveConnectionState(kept[i], runtimeNodes),
             hidden |-> nodes[kept[i].from].type \notin types
                            \/ nodes[kept[i].to].type \notin types,
             connectionId |-> kept[i].id]]

\* The children of lineGroup after renderConnections: for every connection
\* whose two ends are in nodes, an echo stroke and then a primary stroke.
renderConnections(connections, nodes, types, runtimeNodes) ==
    LET Resolved(c) == c.from \in DOMAIN nodes /\ c.to \in DOMAIN nodes
        kept == SelectSeq(connections, Resolved)
        Stroke(c, class) ==
            [class |-> class,
             d |-> getBezierPath(nodes[c.from], nodes[c.to]),
             state |-> deriveConnectionState(c, runtimeNodes),
             hidden |-> nodes[c.from].type \notin types \/ nodes[c.to].type \notin types,
             connectionId |-> c.id]
    IN  [i \in 1..(2 * Len(kept)) |->
            Stroke(kept[(i + 1) \div 2],
                   IF i % 2 = 1 THEN "connection-line echo" ELSE "connection-line")]

\* nodes.js renderNodes / createNodeElement: fresh node cards, no status yet.
renderNodes(nodes, types) ==
    [id \in DOMAIN nodes |->
        [x |-> nodes[id].x, y |-> nodes[id].y,
         hidden |-> nodes[id].type \notin types,
         dragging |-> FALSE, status |-> ""]]

\* syncNodeVisibility that hides cards and never shows them again.
syncNodeVisibilityHideOnly(nodes, elements, types) ==
    [id \in DOMAIN elements |->
        IF id \in DOMAIN nodes
        THEN [elements[id] EXCEPT !.hidden = @ \/ nodes[id].type \notin types]
        ELSE elements[id]]

\* nodes.js syncNodeVisibility
syncNodeVisibility(nodes, elements, types) ==
    [id \in DOMAIN elements |->
        IF id \in DOMAIN nodes
        THEN [elements[id] EXCEPT !.hidden = nodes[id].type \notin types]
        ELSE elements[id]]

\* app.js applyNodeStatuses: data-status of every card of the view.
applyNodeStatuses(nodes, elements, nodeStates) ==
    [id \in DOMAIN elements |->
        IF id \in DOMAIN nodes
        THEN [elements[id] EXCEPT !.status = StatusOf(nodeStates, id)]
        ELSE elements[id]]

\* ------------------------------------------------------------------------
\* Rendering of the active view (app.js)
\* ------------------------------------------------------------------------

getCurrentView == layout.views[activeViewIndex]

\* renderTabs: a button per view, the one of the active view selected.
renderTabs(views, active) ==
    [i \in 1..Len(views) |-> [viewId |-> views[i].id, selected |-> (i = active)]]

\* renderLegend: a chip per type of TYPE_META.
renderLegend == TYPE_META

\* renderGroups: a box per group of the view.
renderGroups(viewGroups) == viewGroups

\* drag.js setupInteractions: the listeners added to canvasWrapper.
CanvasListeners ==
    {"pointerdown", "pointermove", "pointerup", "pointercancel",
     "lostpointercapture", "wheel"}

\* The node cards of the view that was active before.
renderViewNodesOfActive(i) ==
    applyNodeStatuses(getCurrentView.nodes,
                      renderNodes(getCurrentView.nodes, activeTypes),
                      getEffectiveRuntimeNodes)

\* The node cards and strokes renderView builds for view index i.
renderViewNodes(i) ==
    applyNodeStatuses(layout.views[i].nodes,
                      renderNodes(layout.views[i].nodes, activeTypes),
                      getEffectiveRuntimeNodes)

renderViewStrokes(i) ==
    renderConnections(layout.views[i].connections, layout.views[i].nodes,
                      activeTypes, getEffectiveRuntimeNodes)

\* The position rounded but not clamped.
NodeDragPositionUnclamped(v, max) == MathRound(v)

\* The position onNodeDrag stores for one axis: Math.round(clamp(v, 0, max)).
NodeDragPosition(v, max) == MathRound(appClamp(v, R(0), max))

\* onNodeDrag without its call of renderConnections.
onNodeDragKeepsPaths(nodeId, x, y) ==
    LET view == getCurrentView
        nodes == layout.views[nodeMap].nodes
    IN  IF nodeId \notin DOMAIN nodes
        THEN UNCHANGED <<layout, nodeElements, strokes>>
        ELSE
        LET maxX == RSub(view.canvas.width, NODE_DIMENSIONS.width)
            maxY == RSub(view.canvas.height, NODE_DIMENSIONS.height)
            nx == NodeDragPosition(x, maxX)
            ny == NodeDragPosition(y, maxY)
            moved == [nodes EXCEPT ![nodeId].x = nx, ![nodeId].y = ny]
        IN  /\ layout' = [layout EXCEPT !.views[nodeMap].nodes = moved]
            /\ nodeElements' =
                 IF nodeId \in DOMAIN nodeElements
                 THEN [nodeElements EXCEPT ![nodeId].x = nx, ![nodeId].y = ny]
                 ELSE nodeElements
            /\ UNCHANGED strokes

\* onNodeDrag moving every node of the view with the dragged one.
onNodeDragMovesEveryNode(nodeId, x, y) ==
    LET view == getCurrentView
        nodes == layout.views[nodeMap].nodes
    IN  IF nodeId \notin DOMAIN nodes
        THEN UNCHANGED <<layout, nodeElements, strokes>>
        ELSE
        LET maxX == RSub(view.canvas.width, NODE_DIMENSIONS.width)
            maxY == RSub(view.canvas.height, NODE_DIMENSIONS.height)
            nx == NodeDragPosition(x, maxX)
            ny == NodeDragPosition(y, maxY)
            moved == [id \in DOMAIN nodes |-> [nodes[id] EXCEPT !.x = nx, !.y = ny]]
        IN  /\ layout' = [layout EXCEPT !.views[nodeMap].nodes = moved]
            /\ nodeElements' =
                 [id \in DOMAIN nodeElements |->
                     [nodeElements[id] EXCEPT !.x = nx, !.y = ny]]
            /\ strokes' = renderConnections(view.connections, moved, activeTypes,
                                            getEffectiveRuntimeNodes)

\* setupGraphInteractions: the onNodeDrag callback.
onNodeDrag(nodeId, x, y) ==
    LET view == getCurrentView
        nodes == layout.views[nodeMap].nodes
    IN  IF nodeId \notin DOMAIN nodes
        THEN UNCHANGED <<layout, nodeElements, strokes>>
        ELSE
        LET maxX == RSub(view.canvas.width, NODE_DIMENSIONS.width)
            maxY == RSub(view.canvas.height, NODE_DIMENSIONS.height)
            nx == NodeDragPosition(x, maxX)
            ny == NodeDragPosition(y, maxY)
            moved == [nodes EXCEPT ![nodeId].x = nx, ![nodeId].y = ny]
        IN  /\ layout' = [layout EXCEPT !.views[nodeMap].nodes = moved]
            /\ nodeElements' =
                 IF nodeId \in DOMAIN nodeElements
                 THEN [nodeElements EXCEPT ![nodeId].x = nx, ![nodeId].y = ny]
                 ELSE nodeElements
            /\ strokes' = renderConnections(view.connections, moved, activeTypes,
                                            getEffectiveRuntimeNodes)

\* ------------------------------------------------------------------------
\* Interaction controller (drag.js)
\* ------------------------------------------------------------------------

\* toWorldPoint that leaves the zoom scale out.
toWorldPointUnscaled(event, t) ==
    [x |-> RSub(RSub(event.x, Rect.left), t.x),
     y |-> RSub(RSub(event.y, Rect.top), t.y)]

toWorldPoint(event, t) ==
    [x |-> RDiv(RSub(RSub(event.x, Rect.left), t.x), t.scale),
     y |-> RDiv(RSub(RSub(event.y, Rect.top), t.y), t.scale)]

Up == [kind |-> "up", node |-> "", switched |-> FALSE]

beginNodeDrag(p, event, nodeId) ==
    IF nodeId \notin DOMAIN layout.views[nodeMap].nodes
    THEN UNCHANGED <<nodeDrag, nodeElements, capture>>
    ELSE
    LET node == layout.views[nodeMap].nodes[nodeId]
        pointerWorld == toWorldPoint(event, transform)
    IN  /\ nodeDrag' = [pointerId |-> p, nodeId |-> nodeId,
                        offsetX |-> RSub(pointerWorld.x, node.x),
                        offsetY |-> RSub(pointerWorld.y, node.y)]
        /\ nodeElements' = [nodeElements EXCEPT ![nodeId].dragging = TRUE]
        /\ capture' = capture \cup {p}

beginPanDrag(p, event) ==
    /\ panDrag' = [pointerId |-> p, startX |-> event.x, startY |-> event.y,
                   originX |-> transform.x, originY |-> transform.y]
    /\ capture' = capture \cup {p}

\* endPointerAction leaving the pan session in place.
endPointerActionKeepsPan(p) ==
    LET endsNode == nodeDrag # NULL /\ p = nodeDrag.pointerId
    IN  /\ nodeElements' =
             IF endsNode /\ nodeDrag.nodeId \in DOMAIN nodeElements
             THEN [nodeElements EXCEPT ![nodeDrag.nodeId].dragging = FALSE]
             ELSE nodeElements
        /\ nodeDrag' = IF endsNode THEN NULL ELSE nodeDrag
        /\ panDrag' = panDrag
        /\ capture' = capture \ {p}

\* endPointerAction clearing the node-drag session whoever owns it.
endPointerActionClearsAnyNodeDrag(p) ==
    LET endsPan == panDrag # NULL /\ p = panDrag.pointerId
    IN  /\ nodeElements' =
             IF nodeDrag # NULL /\ nodeDrag.nodeId \in DOMAIN nodeElements
             THEN [nodeElements EXCEPT ![nodeDrag.nodeId].dragging = FALSE]
             ELSE nodeElements
        /\ nodeDrag' = NULL
        /\ panDrag' = IF endsPan THEN NULL ELSE panDrag
        /\ capture' = capture \ {p}

endPointerAction(p) ==
    LET endsNode == nodeDrag # NULL /\ p = nodeDrag.pointerId
        endsPan == panDrag # NULL /\ p = panDrag.pointerId
    IN  /\ nodeElements' =
             IF endsNode /\ nodeDrag.nodeId \in DOMAIN nodeElements
             THEN [nodeElements EXCEPT ![nodeDrag.nodeId].dragging = FALSE]
             ELSE nodeElements
        /\ nodeDrag' = IF endsNode THEN NULL ELSE nodeDrag
        /\ panDrag' = IF endsPan THEN NULL ELSE panDrag
        /\ capture' = capture \ {p}

\* pointerdown of a pointer that is not pressed.  primary stands for
\* event.button === 0 or event.pointerType === "touch"; target is the node
\* card under the pointer, or "" for the canvas background.
PointerDown(p, primary, target, event) ==
    /\ "pointerdown" \in listeners
    /\ pointers[p].kind = "up"
    /\ IF ~primary
       THEN /\ pointers' = [pointers EXCEPT ![p] = [Up EXCEPT !.kind = "ignored"]]
            /\ UNCHANGED <<nodeDrag, panDrag, nodeElements, capture>>
       ELSE IF target # ""
       THEN /\ beginNodeDrag(p, event, target)
            /\ pointers' = [pointers EXCEPT ![p] = [Up EXCEPT !.kind = "node", !.node = target]]
            /\ UNCHANGED panDrag
       ELSE /\ beginPanDrag(p, event)
            /\ pointers' = [pointers EXCEPT ![p] = [Up EXCEPT !.kind = "pan"]]
            /\ UNCHANGED <<nodeDrag, nodeElements>>
    /\ UNCHANGED <<layout, activeViewIndex, activeTypes, transform, nodeMap, strokes,
                   runtime, trainerLiveNodes, budget>>
    /\ UNCHANGED <<panelVars, init, pageVars>>

\* The pan added to the transform of the moment instead of the origin.
PanTransformFromCurrent(pan, event, current) ==
    [x |-> RAdd(current.x, RSub(event.x, pan.startX)),
     y |-> RAdd(current.y, RSub(event.y, pan.startY)),
     scale |-> current.scale]

\* The transform the pointermove handler stores for the panning pointer.
PanTransform(pan, event, current) ==
    [x |-> RAdd(pan.originX, RSub(event.x, pan.startX)),
     y |-> RAdd(pan.originY, RSub(event.y, pan.startY)),
     scale |-> current.scale]

\* pointermove of any pointer, pressed or hovering.
PointerMove(p, event) ==
    /\ "pointermove" \in listeners
    /\ IF nodeDrag # NULL /\ p = nodeDrag.pointerId
       THEN /\ budget > 0
            /\ budget' = budget - 1
            /\ LET pointerWorld == toWorldPoint(event, transform)
               IN  onNodeDrag(nodeDrag.nodeId,
                              RSub(pointerWorld.x, nodeDrag.offsetX),
                              RSub(pointerWorld.y, nodeDrag.offsetY))
            /\ UNCHANGED transform
       ELSE IF panDrag # NULL /\ p = panDrag.pointerId
       THEN /\ budget > 0
            /\ budget' = budget - 1
            /\ transform' = PanTransform(panDrag, event, transform)
            /\ UNCHANGED <<layout, nodeElements, strokes>>
       ELSE UNCHANGED <<layout, nodeElements, strokes, transform, budget>>
    /\ UNCHANGED <<activeViewIndex, activeTypes, nodeMap, runtime, trainerLiveNodes,
                   nodeDrag, panDrag, capture, pointers>>
    /\ UNCHANGED <<panelVars, init, pageVars>>

PointerUp(p) ==
    /\ "pointerup" \in listeners
    /\ pointers[p].kind # "up"
    /\ endPointerAction(p)
    /\ pointers' = [pointers EXCEPT ![p] = Up]
    /\ UNCHANGED <<layout, activeViewIndex, activeTypes, transform, nodeMap, strokes,
                   runtime, trainerLiveNodes, budget>>
    /\ UNCHANGED <<panelVars, init, pageVars>>

PointerCancel(p) ==
    /\ "pointercancel" \in listeners
    /\ pointers[p].kind # "up"
    /\ endPointerAction(p)
    /\ pointers' = [pointers EXCEPT ![p] = Up]
    /\ UNCHANGED <<layout, activeViewIndex, activeTypes, transform, nodeMap, strokes,
                   runtime, trainerLiveNodes, budget>>
    /\ UNCHANGED <<panelVars, init, pageVars>>

\* lostpointercapture: the capture of a pressed pointer is taken away, or
\* the event trails the release of a pointer that is up again.
LostPointerCapture(p) ==
    /\ "lostpointercapture" \in listeners
    /\ p \in capture \/ pointers[p].kind = "up"
    /\ endPointerAction(p)
    /\ pointers' = IF pointers[p].kind = "up" THEN pointers
                   ELSE [pointers EXCEPT ![p].kind = "ignored", ![p].node = ""]
    /\ UNCHANGED <<layout, activeViewIndex, activeTypes, transform, nodeMap, strokes,
                   runtime, trainerLiveNodes, budget>>
    /\ UNCHANGED <<panelVars, init, pageVars>>

\* The zoom with the offset computed from the scale before clamping.
WheelTransformUnclampedOffset(current, event, factor) ==
    LET localX == RSub(event.x, Rect.left)
        localY == RSub(event.y, Rect.top)
        worldX == RDiv(RSub(localX, current.x), current.scale)
        worldY == RDiv(RSub(localY, current.y), current.scale)
        rawScale == RMul(current.scale, factor)
    IN  [x |-> RSub(localX, RMul(worldX, rawScale)),
         y |-> RSub(localY, RMul(worldY, rawScale)),
         scale |-> clamp(rawScale, MIN_ZOOM, MAX_ZOOM)]

\* The zoom the wheel handler stores.
WheelTransform(current, event, factor) ==
    LET localX == RSub(event.x, Rect.left)
        localY == RSub(event.y, Rect.top)
        worldX == RDiv(RSub(localX, current.x), current.scale)
        worldY == RDiv(RSub(localY, current.y), current.scale)
        nextScale == clamp(RMul(current.scale, factor), MIN_ZOOM, MAX_ZOOM)
    IN  [x |-> RSub(localX, RMul(worldX, nextScale)),
         y |-> RSub(localY, RMul(worldY, nextScale)),
         scale |-> nextScale]

\* The wheel handler ending the sessions in progress.
WheelEndingSessions(event, factor) ==
    /\ "wheel" \in listeners
    /\ budget > 0
    /\ budget' = budget - 1
    /\ transform' = WheelTransform(transform, event, factor)
    /\ nodeDrag' = NULL
    /\ panDrag' = NULL
    /\ capture' = {}
    /\ UNCHANGED <<layout, activeViewIndex, activeTypes, nodeMap, nodeElements, strokes,
                   runtime, trainerLiveNodes, pointers>>
    /\ UNCHANGED <<panelVars, init, pageVars>>

Wheel(event, factor) ==
    /\ "wheel" \in listeners
    /\ budget > 0
    /\ budget' = budget - 1
    /\ transform' = WheelTransform(transform, event, factor)
    /\ UNCHANGED <<layout, activeViewIndex, activeTypes, nodeMap, nodeElements, strokes,
                   runtime, trainerLiveNodes, nodeDrag, panDrag, capture, pointers>>
    /\ UNCHANGED <<panelVars, init, pageVars>>

\* renderTabs: the click handler of tab i.
SwitchView(i) ==
    /\ i \in 1..Len(tabs)
    /\ activeViewIndex' = i
    /\ tabs' = renderTabs(layout.views, i)
    /\ groups' = renderGroups(layout.views[i].groups)
    /\ transform' = DefaultTransform
    /\ nodeMap' = i
    /\ nodeElements' = renderViewNodes(i)
    /\ strokes' = renderViewStrokes(i)
    /\ pointers' = [p \in PointerIds |->
                      IF pointers[p].kind \in {"node", "pan"}
                      THEN [pointers[p] EXCEPT !.switched = TRUE]
                      ELSE pointers[p]]
    /\ UNCHANGED <<layout, activeTypes, runtime, trainerLiveNodes, nodeDrag, panDrag,
                   capture, budget>>
    /\ UNCHANGED <<panelVars, init, legend, listeners>>

\* renderLegend: the click handler of the chip of one type.
ToggleType(type) ==
    LET types == IF type \in activeTypes THEN activeTypes \ {type}
                 ELSE activeTypes \cup {type}
    IN  /\ type \in legend
        /\ activeTypes' = types
        /\ nodeElements' = syncNodeVisibility(getCurrentView.nodes, nodeElements, types)
        /\ strokes' = renderConnections(getCurrentView.connections,
                                        layout.views[nodeMap].nodes, types,
                                        getEffectiveRuntimeNodes)
        /\ UNCHANGED <<layout, activeViewIndex, transform, nodeMap, runtime,
                       trainerLiveNodes, nodeDrag, panDrag, capture, pointers, budget>>
        /\ UNCHANGED <<panelVars, init, pageVars>>

\* ------------------------------------------------------------------------
\* Run comparison (app.js) and the checklist panel (panels.js)
\* ------------------------------------------------------------------------

LIVE_RUN_KEY == "__live__"

REQUIRED_CHECKLIST_TITLES ==
    <<"Check trained checkpoints",
      "Check PatchTST scaler artifact",
      "Check TensorBoard logs",
      "Check final training configs",
      "Check backup bundle",
      "Run scoring smoke test for both streams",
      "Check split policy documentation">>

\* A JavaScript array, as a value that can stand where null can.
Arr(items) == [items |-> items]

\* Array.prototype.includes
Includes(array, value) == \E i \in 1..Len(array) : array[i] = value

\* A val_loss as JavaScript sees it: a finite number carries its value in v.
Num(n, d) == [t |-> "number", v |-> Rat(n, d)]
NaN == [t |-> "NaN"]
Infinity == [t |-> "Infinity"]
JsNull == [t |-> "null"]
Undefined == [t |-> "undefined"]
JsString == [t |-> "string"]

\* typeof value === "number" && Number.isFinite(value)
IsFiniteNumber(value) == value.t = "number"

\* checklistPassedCount: the items of the snapshot's checklist that passed,
\* whatever their titles.
checklistPassedCount(runtimeState) ==
    IF runtimeState = NULL THEN 0
    ELSE IF runtimeState.checklist = NULL THEN 0
    ELSE Cardinality({i \in 1..Len(runtimeState.checklist.items) :
                         runtimeState.checklist.items[i].passed})

\* checklistTotalCount
checklistTotalCount(runtimeState) ==
    IF runtimeState = NULL THEN 0
    ELSE IF runtimeState.checklist = NULL THEN 0
    ELSE Len(runtimeState.checklist.items)

\* runtimeState?.metrics?.[stream]?.loss: an array, or NULL.
LossSeries(runtimeState, stream) ==
    IF runtimeState = NULL THEN NULL
    ELSE IF runtimeState.metrics = NULL THEN NULL
    ELSE IF runtimeState.metrics[stream] = NULL THEN NULL
    ELSE runtimeState.metrics[stream].loss

\* The scan of finalValLoss, from entry idx down to the first.
RECURSIVE ScanValLoss(_, _)
ScanValLoss(series, idx) ==
    IF idx = 0 THEN NULL
    ELSE LET item == series[idx]
             value == IF item = NULL THEN Undefined ELSE item.val_loss
         IN  IF IsFiniteNumber(value) THEN value.v
             ELSE ScanValLoss(series, idx - 1)

\* The scan that gives up at the last entry.
finalValLossLastOnly(runtimeState, stream) ==
    LET series == LossSeries(runtimeState, stream)
    IN  IF series = NULL THEN NULL
        ELSE IF Len(series.items) = 0 THEN NULL
        ELSE LET item == series.items[Len(series.items)]
             IN  IF item # NULL /\ IsFiniteNumber(item.val_loss)
                 THEN item.val_loss.v ELSE NULL

\* finalValLoss
finalValLoss(runtimeState, stream) ==
    LET series == LossSeries(runtimeState, stream)
    IN  IF series = NULL THEN NULL
        ELSE IF Len(series.items) = 0 THEN NULL
        ELSE ScanValLoss(series.items, Len(series.items))

\* Number.prototype.toFixed(4), kept as the signed count of ten-thousandths:
\* the nearest one, a tie going away from zero.
ToFixed4(value) ==
    LET scaled == RMul(RAbs(value), R(10000))
        n == (2 * scaled.n + scaled.d) \div (2 * scaled.d)
    IN  IF value.n < 0 THEN -n ELSE n

\* formatDelta
formatDelta(value) ==
    IF value = NULL THEN [text |-> "n/a"]
    ELSE [text |-> "fixed", plus |-> value.n >= 0, negative |-> value.n < 0,
          tenThousandths |-> ToFixed4(value)]

\* createComparisonItem
createComparisonItem(label, value, stateName) ==
    [label |-> label, value |-> value, state |-> stateName]

\* The loss tag with the sign read the wrong way round.
lossDeltaStateInverted(delta) ==
    IF delta = NULL THEN "neutral"
    ELSE IF delta.n > 0 THEN "improved"
    ELSE IF delta.n < 0 THEN "regressed"
    ELSE "neutral"

\* The data-state of a loss row.
lossDeltaState(delta) ==
    IF delta = NULL THEN "neutral"
    ELSE IF delta.n < 0 THEN "improved"
    ELSE IF delta.n > 0 THEN "regressed"
    ELSE "neutral"

\* The rows that compute with a missing snapshot as if it were empty.
setComparisonRowsUnguarded(currentRuntime, baselineRuntime) ==
    LET passDelta == checklistPassedCount(currentRuntime)
                        - checklistPassedCount(baselineRuntime)
    IN  <<createComparisonItem("checklist pass delta",
                               [text |-> "delta", plus |-> passDelta >= 0,
                                delta |-> passDelta],
                               IF passDelta = 0 THEN "neutral"
                               ELSE IF passDelta > 0 THEN "improved" ELSE "regressed"),
          createComparisonItem("patchtst final val loss delta",
                               [text |-> "n/a"], "neutral"),
          createComparisonItem("swinmae final val loss delta",
                               [text |-> "n/a"], "neutral")>>

\* setComparisonRows: the three children of comparisonMetricsEl.
setComparisonRows(currentRuntime, baselineRuntime) ==
    IF currentRuntime = NULL \/ baselineRuntime = NULL
    THEN <<createComparisonItem("checklist pass delta", [text |-> "n/a"], "neutral"),
           createComparisonItem("patchtst final val loss delta",
                                [text |-> "n/a"], "neutral"),
           createComparisonItem("swinmae final val loss delta",
                                [text |-> "n/a"], "neutral")>>
    ELSE
    LET currentPassed == checklistPassedCount(currentRuntime)
        baselinePassed == checklistPassedCount(baselineRuntime)
        passDelta == currentPassed - baselinePassed
        Delta(stream) ==
            LET cur == finalValLoss(currentRuntime, stream)
                base == finalValLoss(baselineRuntime, stream)
            IN  IF cur = NULL \/ base = NULL THEN NULL ELSE RSub(cur, base)
    IN  <<createComparisonItem(
              "checklist pass delta",
              [text |-> "delta", plus |-> passDelta >= 0, delta |-> passDelta,
               currentPassed |-> currentPassed,
               currentTotal |-> checklistTotalCount(currentRuntime),
               baselinePassed |-> baselinePassed,
               baselineTotal |-> checklistTotalCount(baselineRuntime)],
              IF passDelta = 0 THEN "neutral"
              ELSE IF passDelta > 0 THEN "improved" ELSE "regressed"),
          createComparisonItem("patchtst final val loss delta",
                               formatDelta(Delta("patchtst")),
                               lossDeltaState(Delta("patchtst"))),
          createComparisonItem("swinmae final val loss delta",
                               formatDelta(Delta("swinmae")),
                               lossDeltaState(Delta("swinmae")))>>

\* [...checklist].sort((a, b) => Number(a.index) - Number(b.index)): a stable
\* sort, here by insertion.
RECURSIVE SortByIndex(_)
SortByIndex(checklist) ==
    IF Len(checklist) <= 1 THEN checklist
    ELSE LET sorted == SortByIndex(SubSeq(checklist, 1, Len(checklist) - 1))
             item == checklist[Len(checklist)]
             before == SelectSeq(sorted, LAMBDA other : other.index <= item.index)
             after == SelectSeq(sorted, LAMBDA other : other.index > item.index)
         IN  before \o <<item>> \o after

\* panels.js normalizeChecklist
normalizeChecklist(checklist) ==
    IF checklist = NULL THEN << >>
    ELSE SelectSeq(SortByIndex(checklist.items),
                   LAMBDA item : Includes(REQUIRED_CHECKLIST_TITLES, item.title))

\* panels.js createChecklistRow
createChecklistRow(item) ==
    [state |-> IF item.passed THEN "pass" ELSE "fail",
     index |-> item.index, title |-> item.title]

\* panels.js renderDashboardPanels: the checklist rows and the summary.
renderDashboardPanels(runtimeState) ==
    LET checklist == normalizeChecklist(IF runtimeState = NULL THEN NULL
                                        ELSE runtimeState.checklist)
        passed == Cardinality({i \in 1..Len(checklist) : checklist[i].passed})
    IN  [summary |-> [passed |-> passed, total |-> Len(checklist)],
         list |-> [i \in 1..Len(checklist) |-> createChecklistRow(checklist[i])]]

\* ------------------------------------------------------------------------
\* Run snapshots: the files under data/, the memo and the two selects
\* ------------------------------------------------------------------------

\* A checklist item and a point of a loss series.
Item(index, title, passed) == [index |-> index, title |-> title, passed |-> passed]
Loss(value) == [val_loss |-> value]

\* data/dashboard-state.json
LiveSnapshot ==
    [meta |-> [run_id |-> "r3"],
     nodes |-> [A |-> [status |-> "done"], B |-> [status |-> "running"]],
     checklist |-> Arr(<<Item(1, "Check trained checkpoints", TRUE),
                         Item(2, "Check TensorBoard logs", TRUE)>>),
     metrics |-> [patchtst |-> [loss |-> Arr(<<Loss(Num(1, 2))>>)],
                  swinmae |-> [loss |-> Arr(<<Loss(Num(1, 4)), Loss(NaN)>>)]]]

\* data/runs/f1 and data/runs/f2
SnapshotFiles ==
    [f1 |-> [meta |-> [run_id |-> "r1"],
             nodes |-> [A |-> [status |-> "done"], B |-> [status |-> "fail"]],
             checklist |-> Arr(<<Item(1, "Check trained checkpoints", TRUE)>>),
             metrics |-> [patchtst |-> [loss |-> Arr(<<Loss(Num(3, 4))>>)],
                          swinmae |-> NULL]],
     f2 |-> [meta |-> [run_id |-> "r3"],
             nodes |-> NULL,
             checklist |-> NULL,
             metrics |-> [patchtst |-> [loss |-> Arr(<<Loss(Num(1, 2))>>)],
                          swinmae |-> [loss |-> Arr(<<Loss(Num(1, 2))>>)]]]]

Files == DOMAIN SnapshotFiles

\* data/runs/index.json after loadRunHistoryIndex: no runs, or three runs of
\* which two share a snapshot file.
IndexOfRuns ==
    <<[run_id |-> "r1", file |-> "f1"],
      [run_id |-> "r2", file |-> "f1"],
      [run_id |-> "r3", file |-> "f2"]>>

RunIndexes == {<< >>, IndexOfRuns}

\* The applyRunSelection calls that can be waiting for a file at one time.
Callers == {1, 2}

\* Map.prototype.set that drops the other entries.
MapSetEvicting(map, key, value) == [k \in {key} |-> value]

\* Map.prototype.set
MapSet(map, key, value) ==
    [k \in DOMAIN map \cup {key} |-> IF k = key THEN value ELSE map[k]]

\* Array.prototype.find: the first entry with the run id, or NULL.
FindRun(index, runId) ==
    LET hits == {i \in 1..Len(index) : index[i].run_id = runId}
    IN  IF hits = {} THEN NULL
        ELSE index[CHOOSE i \in hits : \A j \in hits : i <= j]

\* The lookup that never consults the memo.
resolveRuntimeBySelectionNoMemo(selectionValue, live, index, memo) ==
    IF selectionValue = LIVE_RUN_KEY THEN [fetch |-> FALSE, value |-> live]
    ELSE LET entry == FindRun(index, selectionValue)
         IN  IF entry = NULL THEN [fetch |-> FALSE, value |-> NULL]
             ELSE [fetch |-> TRUE, file |-> entry.file]

\* resolveRuntimeBySelection and loadRunSnapshot up to their first await:
\* the snapshot resolved without a fetch, or the file whose fetch is issued.
resolveRuntimeBySelection(selectionValue, live, index, memo) ==
    IF selectionValue = LIVE_RUN_KEY THEN [fetch |-> FALSE, value |-> live]
    ELSE LET entry == FindRun(index, selectionValue)
         IN  IF entry = NULL THEN [fetch |-> FALSE, value |-> NULL]
             ELSE IF entry.file \in DOMAIN memo
             THEN [fetch |-> FALSE, value |-> memo[entry.file]]
             ELSE [fetch |-> TRUE, file |-> entry.file]

\* applyRunSelection from its start, or from the point where the current
\* snapshot is known, to its next fetch or its end.  The file a call waits
\* for is in waiting; a call that ended has done and its two snapshots.
ResolveBaseline(currentRuntime, live, index, memo) ==
    LET r == resolveRuntimeBySelection(baselineRunSelect', live, index, memo)
    IN  IF r.fetch
        THEN [done |-> FALSE, fetched |-> {r.file},
              waiting |-> [pc |-> "baseline", file |-> r.file,
                           currentRuntime |-> currentRuntime]]
        ELSE [done |-> TRUE, fetched |-> {}, waiting |-> NULL,
              currentRuntime |-> currentRuntime, baselineRuntime |-> r.value]

ResolveCurrent(live, index, memo) ==
    LET r == resolveRuntimeBySelection(currentRunSelect', live, index, memo)
    IN  IF r.fetch
        THEN [done |-> FALSE, fetched |-> {r.file},
              waiting |-> [pc |-> "current", file |-> r.file,
                           currentRuntime |-> NULL]]
        ELSE ResolveBaseline(r.value, live, index, memo)

\* renderRuntimePanels
renderRuntimePanels(runtimeState) ==
    /\ checklistList' = renderDashboardPanels(runtimeState).list
    /\ checklistSummary' = renderDashboardPanels(runtimeState).summary

\* refreshNodeStatusView over the snapshot and the live patch of the next state.
refreshNodeStatuses ==
    LET runtimeNodes == getEffectiveRuntimeNodesOf(runtime', trainerLiveNodes')
    IN  /\ nodeElements' = applyNodeStatuses(getCurrentView.nodes, nodeElements,
                                             runtimeNodes)
        /\ strokes' = renderConnections(getCurrentView.connections,
                                        layout.views[nodeMap].nodes, activeTypes,
                                        runtimeNodes)

\* What a step of applyRunSelection leaves behind: the fetch it issued and
\* the call that waits for it, or the panels of the resolved snapshots.
applyRunSelection(caller, out, live, answered) ==
    /\ \A f \in out.fetched : fetchLog[f].issued < MaxFetches
    /\ fetchLog' = [f \in Files |->
                      [issued |-> IF f \in out.fetched THEN fetchLog[f].issued + 1
                                  ELSE fetchLog[f].issued,
                       answered |-> IF f \in answered THEN fetchLog[f].answered + 1
                                    ELSE fetchLog[f].answered]]
    /\ selections' = [selections EXCEPT ![caller] = out.waiting]
    /\ IF out.done
       THEN /\ runtime' = IF out.currentRuntime # NULL THEN out.currentRuntime ELSE live
            /\ renderRuntimePanels(runtime')
            /\ refreshNodeStatuses
            /\ comparisonRows' = setComparisonRows(out.currentRuntime, out.baselineRuntime)
       ELSE UNCHANGED <<runtime, checklistList, checklistSummary, nodeElements, strokes,
                        comparisonRows>>

\* The options of the two selects that initRunComparisonPanel fills in.
CurrentOptions(index, live) ==
    {index[i].run_id : i \in 1..Len(index)}
        \cup (IF live # NULL \/ index = << >> THEN {LIVE_RUN_KEY} ELSE {})

BaselineOptions(index) ==
    IF index = << >> THEN {""} ELSE {index[i].run_id : i \in 1..Len(index)}

\* init() goes on to initTrainingControls, which adds the click handlers
\* of the trainer panel and calls refreshTrainerStatus.
initTrainingControls ==
    /\ init' = "status"
    /\ issued' = issued + 1
    /\ requests' = requests \cup {[seq |-> issued + 1, kind |-> "status", by |-> "init"]}

\* The call of applyRunSelection that init() awaits.
InitCaller == 1

\* init() after a step of the applyRunSelection call of the caller.
InitAfterSelection(caller) ==
    IF init = "selection" /\ caller = InitCaller /\ selections'[caller] = NULL
    THEN initTrainingControls
    ELSE UNCHANGED <<init, requests, issued>>

\* The change handler of a select: the user picks another option.
ChangeRunSelection(which, value, caller) ==
    /\ UNCHANGED <<canvasVars, init, trainerLiveNodes, runtimeLive, runHistoryIndex,
                   runSnapshots, trainerPollId, timers, trainerApiAvailable, trainJobState,
                   trainControlsEnabled, lastTrainerCompletion, requests, issued,
                   statusLog, refresh>>
    /\ runHistoryIndex # << >>
    /\ selections[caller] = NULL
    /\ IF which = "current"
       THEN /\ value \in CurrentOptions(runHistoryIndex, runtimeLive) \ {currentRunSelect}
            /\ currentRunSelect' = value
            /\ UNCHANGED baselineRunSelect
       ELSE /\ value \in BaselineOptions(runHistoryIndex) \ {baselineRunSelect}
            /\ baselineRunSelect' = value
            /\ UNCHANGED currentRunSelect
    /\ applyRunSelection(caller,
                         ResolveCurrent(runtimeLive, runHistoryIndex, runSnapshots),
                         runtimeLive, {})

\* The fetch of a snapshot file answers with the file: loadRunSnapshot
\* memoizes it and applyRunSelection goes on.
SnapshotLoaded(caller) ==
    /\ UNCHANGED <<canvasVars, trainerLiveNodes, runtimeLive, runHistoryIndex,
                   currentRunSelect, baselineRunSelect, trainerPollId, timers,
                   trainerApiAvailable, trainJobState, trainControlsEnabled,
                   lastTrainerCompletion, statusLog, refresh>>
    /\ selections[caller] # NULL
    /\ LET call == selections[caller]
           payload == SnapshotFiles[call.file]
           memo == MapSet(runSnapshots, call.file, payload)
       IN  /\ runSnapshots' = memo
           /\ applyRunSelection(
                  caller,
                  IF call.pc = "current"
                  THEN ResolveBaseline(payload, runtimeLive, runHistoryIndex, memo)
                  ELSE [done |-> TRUE, fetched |-> {}, waiting |-> NULL,
                        currentRuntime |-> call.currentRuntime,
                        baselineRuntime |-> payload],
                  runtimeLive, {call.file})
    /\ InitAfterSelection(caller)

\* The fetch of a snapshot file fails: loadRunSnapshot throws and the call
\* ends in the catch of its caller.
SnapshotFailed(caller) ==
    /\ selections[caller] # NULL
    /\ selections' = [selections EXCEPT ![caller] = NULL]
    /\ init' = IF init = "selection" /\ caller = InitCaller THEN "failed" ELSE init
    /\ UNCHANGED <<canvasVars, nodeElements, strokes, runtime, trainerLiveNodes,
                   runtimeLive, runHistoryIndex, runSnapshots, currentRunSelect,
                   baselineRunSelect, fetchLog, comparisonRows, checklistList,
                   checklistSummary, trainerPollId, timers, trainerApiAvailable, trainJobState,
                   trainControlsEnabled, lastTrainerCompletion, requests, issued,
                   statusLog, refresh>>

\* ------------------------------------------------------------------------
\* Trainer panel (app.js): status requests, the poll timer, the refresh of
\* the runtime data after a training run
\* ------------------------------------------------------------------------

\* The job of a trainer API payload.  A missing state is "".
Job(state, liveNodes, finishedAt) ==
    [state |-> state, live_nodes |-> liveNodes, finished_at |-> finishedAt,
     run_id |-> "r3"]

JobPayloads ==
    {Job("", NULL, ""),
     Job("idle", NULL, ""),
     Job("running", [A |-> [status |-> "running"]], ""),
     Job("stopping", NULL, ""),
     Job("failed", [A |-> [status |-> "fail"]], "t1"),
     Job("success", [A |-> [status |-> "done"], B |-> [status |-> "done"]], "t1")}

\* setTrainStateBadge(job.state || "idle")
Badge(job) == IF job.state = "" THEN "idle" ELSE job.state

\* The live patch renderTrainerStatus stores.
LiveNodesOf(job) ==
    IF job.state \in {"running", "stopping", "failed", "success"}
    THEN job.live_nodes ELSE NULL

\* `${job.state}:${job.finished_at}:${job.run_id}`
CompletionToken(job) ==
    [state |-> job.state, finished_at |-> job.finished_at, run_id |-> job.run_id]

\* The test of renderTrainerStatus without the comparison of the token.
StartsRefreshOnEverySuccess(job) == job.state = "success"

\* The payload makes renderTrainerStatus call refreshRuntimeFromFiles.
StartsRefresh(job) ==
    job.state = "success" /\ CompletionToken(job) # lastTrainerCompletion

\* The poll timer: state.trainerPollId and the interval timers of the window.
Poll == [id |-> trainerPollId, timers |-> timers]

\* window.setInterval: a handle that no live timer has.
SetInterval(live) ==
    [interval |-> 3000,
     handle |-> CHOOSE h \in 1..(Cardinality(live) + 1) :
                   /\ \A t \in live : t.handle # h
                   /\ \A g \in 1..(h - 1) : \E t \in live : t.handle = g]

\* startTrainerPolling without its early return.
startTrainerPollingUnguarded(poll) ==
    [id |-> SetInterval(poll.timers),
     timers |-> poll.timers \cup {SetInterval(poll.timers)}]

\* startTrainerPolling
startTrainerPolling(poll) ==
    IF poll.id # NULL THEN poll
    ELSE [id |-> SetInterval(poll.timers),
          timers |-> poll.timers \cup {SetInterval(poll.timers)}]

\* stopTrainerPolling that leaves the timer running.
stopTrainerPollingKeeps(poll) == poll

\* stopTrainerPolling
stopTrainerPolling(poll) ==
    IF poll.id # NULL THEN [id |-> NULL, timers |-> poll.timers \ {poll.id}]
    ELSE poll

\* init() after the answer to a status request: "Dashboard ready".
InitAfterStatus(request) ==
    init' = IF init = "status" /\ request.by = "init" THEN "ready" ELSE init

\* requestJson is called: a request of the kind is in flight.
IssueRequest(kind, by) ==
    /\ issued < MaxRequests
    /\ issued' = issued + 1
    /\ requests' = requests \cup {[seq |-> issued + 1, kind |-> kind, by |-> by]}
    /\ statusLog' = IF by = "user" THEN [statusLog EXCEPT !.failedSince = FALSE]
                    ELSE statusLog
    /\ UNCHANGED <<canvasVars, init, nodeElements, strokes, runtime, trainerLiveNodes,
                   runtimeLive, runHistoryIndex, runSnapshots, currentRunSelect,
                   baselineRunSelect, selections, fetchLog, comparisonRows,
                   checklistList, checklistSummary, trainerPollId, timers,
                   trainerApiAvailable, trainJobState, trainControlsEnabled,
                   lastTrainerCompletion, refresh>>

\* The click handler of the refresh button, which is never disabled.
ClickRefresh ==
    /\ init \in {"status", "ready"}
    /\ IssueRequest("status", "user")

\* The interval callback of startTrainerPolling.
PollTick ==
    /\ timers # {}
    /\ IssueRequest("status", "poll")

\* The click handlers of the upload, run and stop buttons.
ClickControl(kind) ==
    /\ init \in {"status", "ready"}
    /\ trainControlsEnabled
    /\ IssueRequest(kind, "user")

\* renderTrainerStatus
renderTrainerStatus(job) ==
    /\ trainerApiAvailable' = TRUE
    /\ trainControlsEnabled' = TRUE
    /\ trainJobState' = Badge(job)
    /\ trainerLiveNodes' = LiveNodesOf(job)
    /\ UNCHANGED runtime
    /\ refreshNodeStatuses
    /\ LET poll == IF job.state \in {"running", "stopping"}
                   THEN startTrainerPolling(Poll) ELSE stopTrainerPolling(Poll)
       IN  trainerPollId' = poll.id /\ timers' = poll.timers
    /\ lastTrainerCompletion' =
          IF job.state \in {"success", "failed"}
          THEN CompletionToken(job) ELSE lastTrainerCompletion
    /\ IF StartsRefresh(job)
       THEN refresh = "idle" /\ refresh' = "runtime"
       ELSE UNCHANGED refresh

\* setTrainerUnavailable that leaves the live patch in place.
setTrainerUnavailableKeepsPatch ==
    /\ trainerApiAvailable' = FALSE
    /\ trainerPollId' = stopTrainerPolling(Poll).id
    /\ timers' = stopTrainerPolling(Poll).timers
    /\ trainControlsEnabled' = FALSE
    /\ trainJobState' = "offline"
    /\ UNCHANGED <<runtime, trainerLiveNodes>>
    /\ refreshNodeStatuses
    /\ UNCHANGED <<lastTrainerCompletion, refresh>>

\* setTrainerUnavailable
setTrainerUnavailable ==
    /\ trainerApiAvailable' = FALSE
    /\ trainerLiveNodes' = NULL
    /\ trainerPollId' = stopTrainerPolling(Poll).id
    /\ timers' = stopTrainerPolling(Poll).timers
    /\ trainControlsEnabled' = FALSE
    /\ trainJobState' = "offline"
    /\ UNCHANGED runtime
    /\ refreshNodeStatuses
    /\ UNCHANGED <<lastTrainerCompletion, refresh>>

\* The log after the answer to a request, failed telling whether it is the
\* failure of a status request.
LogAnswer(request, failed) ==
    [newest |-> IF request.kind = "status" /\ request.seq > statusLog.newest
                THEN request.seq ELSE statusLog.newest,
     failedSince |-> statusLog.failedSince \/ failed]

\* A trainer API request is answered with a payload.
Respond(request, job) ==
    /\ request \in requests
    /\ requests' = requests \ {request}
    /\ statusLog' = LogAnswer(request, FALSE)
    /\ renderTrainerStatus(job)
    /\ InitAfterStatus(request)
    /\ UNCHANGED <<canvasVars, runtimeLive, runHistoryIndex, runSnapshots,
                   currentRunSelect, baselineRunSelect, selections, fetchLog,
                   comparisonRows, checklistList, checklistSummary, issued>>

\* A trainer API request fails: requestJson throws.  refreshTrainerStatus
\* catches it for /api/status; the other callers only write a note.
Fail(request) ==
    /\ request \in requests
    /\ requests' = requests \ {request}
    /\ statusLog' = LogAnswer(request, request.kind = "status")
    /\ InitAfterStatus(request)
    /\ IF request.kind = "status"
       THEN setTrainerUnavailable
       ELSE UNCHANGED <<trainerApiAvailable, trainerLiveNodes, trainerPollId, timers,
                        trainControlsEnabled, trainJobState, runtime, nodeElements,
                        strokes, lastTrainerCompletion, refresh>>
    /\ UNCHANGED <<canvasVars, runtimeLive, runHistoryIndex, runSnapshots,
                   currentRunSelect, baselineRunSelect, selections, fetchLog,
                   comparisonRows, checklistList, checklistSummary, issued>>

\* What dashboard-state.json holds when it is read again: nothing, or the
\* snapshot of the run that just ended.
RuntimeFiles == {NULL, LiveSnapshot}

\* refreshRuntimeFromFiles after loadRuntimeData, up to the fetch of the
\* run index in initRunComparisonPanel.
RuntimeDataLoaded(file) ==
    /\ refresh = "runtime"
    /\ refresh' = "index"
    /\ runtimeLive' = file
    /\ runtime' = file
    /\ trainerLiveNodes' = NULL
    /\ runSnapshots' = EmptyObject
    /\ UNCHANGED <<canvasVars, init, nodeElements, strokes, runHistoryIndex,
                   currentRunSelect, baselineRunSelect, selections, fetchLog,
                   comparisonRows, checklistList, checklistSummary, trainerPollId, timers,
                   trainerApiAvailable, trainJobState, trainControlsEnabled,
                   lastTrainerCompletion, requests, issued, statusLog>>

\* The option initRunComparisonPanel preselects in the baseline select.
PreferredBaseline(index, live) ==
    LET others == {i \in 1..Len(index) :
                      live = NULL \/ index[i].run_id # live.meta.run_id}
    IN  IF index = << >> THEN ""
        ELSE IF others = {} THEN index[1].run_id
        ELSE index[CHOOSE i \in others : \A j \in others : i <= j].run_id

PreferredCurrent(index, live) ==
    IF live # NULL \/ index = << >> THEN LIVE_RUN_KEY ELSE index[1].run_id

\* initRunComparisonPanel after loadRunHistoryIndex, and with it the rest
\* of refreshRuntimeFromFiles.
RunIndexLoaded(index, caller) ==
    /\ UNCHANGED <<canvasVars, init, trainerLiveNodes, runtimeLive, runSnapshots,
                   trainerPollId, timers, trainerApiAvailable, trainJobState,
                   trainControlsEnabled, lastTrainerCompletion, requests, issued,
                   statusLog>>
    /\ refresh = "index"
    /\ refresh' = "idle"
    /\ runHistoryIndex' = index
    /\ currentRunSelect' = PreferredCurrent(index, runtimeLive)
    /\ baselineRunSelect' = PreferredBaseline(index, runtimeLive)
    /\ IF index = << >>
       THEN /\ comparisonRows' = setComparisonRows(runtimeLive, NULL)
            /\ UNCHANGED <<runtime, selections, fetchLog>>
            /\ refreshNodeStatuses
            /\ renderRuntimePanels(runtime)
       ELSE /\ selections[caller] = NULL
            /\ applyRunSelection(caller,
                                 ResolveCurrent(runtimeLive, index, runSnapshots),
                                 runtimeLive, {})

\* fetch rejects in loadRuntimeData or loadRunHistoryIndex:
\* refreshRuntimeFromFiles ends in the catch of renderTrainerStatus.
RefreshFailed ==
    /\ refresh # "idle"
    /\ refresh' = "idle"
    /\ UNCHANGED <<canvasVars, init, nodeElements, strokes, runtime, trainerLiveNodes,
                   runtimeLive, runHistoryIndex, runSnapshots, currentRunSelect,
                   baselineRunSelect, selections, fetchLog, comparisonRows,
                   checklistList, checklistSummary, trainerPollId, timers,
                   trainerApiAvailable, trainJobState, trainControlsEnabled,
                   lastTrainerCompletion, requests, issued, statusLog>>

\* The panels before any of them is filled in.
InitPanelsIdle ==
    /\ runtimeLive = runtime
    /\ runHistoryIndex = << >>
    /\ runSnapshots = EmptyObject
    /\ currentRunSelect = LIVE_RUN_KEY
    /\ baselineRunSelect = ""
    /\ selections = [caller \in Callers |-> NULL]
    /\ fetchLog = [f \in Files |-> [issued |-> 0, answered |-> 0]]
    /\ comparisonRows = << >>
    /\ checklistList = << >>
    /\ checklistSummary = [passed |-> 0, total |-> 0]
    /\ trainerPollId = NULL
    /\ timers = {}
    /\ trainerApiAvailable = TRUE
    /\ trainJobState = ""
    /\ trainControlsEnabled = TRUE
    /\ lastTrainerCompletion = NULL
    /\ requests = {}
    /\ issued = 0
    /\ statusLog = [newest |-> 0, failedSince |-> FALSE]
    /\ refresh = "idle"

\* ------------------------------------------------------------------------
\* The page after init(): layout loaded, first view rendered
\* ------------------------------------------------------------------------

\* What init() has rendered around the graph of the first view, init()
\* itself being at the position.
InitPage(position) ==
    /\ init = position
    /\ tabs = renderTabs(layout.views, 1)
    /\ legend = renderLegend
    /\ groups = renderGroups(layout.views[1].groups)
    /\ listeners = CanvasListeners

\* dashboard-state.json as found at load.
InitRuntimes == {[nodes |-> [A |-> [status |-> "done"], C |-> [status |-> "running"]]]}

InitOver(layouts, runtimes, moves) ==
    /\ layout \in layouts
    /\ runtime \in runtimes
    /\ trainerLiveNodes = NULL
    /\ activeViewIndex = 1
    /\ activeTypes = TYPE_META
    /\ transform = DefaultTransform
    /\ nodeMap = 1
    /\ nodeElements = renderViewNodes(1)
    /\ strokes = renderViewStrokes(1)
    /\ nodeDrag = NULL
    /\ panDrag = NULL
    /\ capture = {}
    /\ pointers = [p \in PointerIds |-> Up]
    /\ budget = moves
    /\ InitPanelsIdle
    /\ InitPage("ready")

\* The pointer events of the canvas, the pointers being those of pids and
\* the event positions those of points.
PointerEvents(pids, points) ==
    \/ \E p \in pids, primary \in BOOLEAN, event \in points,
          target \in DOMAIN nodeElements \cup {""} :
            PointerDown(p, primary, target, event)
    \/ \E p \in pids, event \in points : PointerMove(p, event)
    \/ \E p \in pids : PointerUp(p)
    \/ \E p \in pids : PointerCancel(p)
    \/ \E p \in pids : LostPointerCapture(p)

\* One pointer on the canvas: drags, pans, zooms and view switches.
Init == InitOver(Layouts, InitRuntimes, MaxMoves)

Next ==
    \/ PointerEvents({1}, Points)
    \/ \E event \in Points, factor \in WheelFactors : Wheel(event, factor)
    \/ \E i \in 1..Len(layout.views) : SwitchView(i)

Spec == Init /\ [][Next]_vars

\* The same over every layout, the odd canvases included.
InitCanvases == InitOver(AllLayouts, InitRuntimes, MaxMoves)
SpecCanvases == InitCanvases /\ [][Next]_vars

\* Two pointers on the canvas of the regular layout.
InitPointers == InitOver({LayoutRegular}, InitRuntimes, MaxPointerMoves)

NextPointers ==
    \/ PointerEvents(PointerIds, Points)
    \/ \E i \in 1..Len(layout.views) : SwitchView(i)

SpecPointers == InitPointers /\ [][NextPointers]_vars

\* ------------------------------------------------------------------------
\* The status overlay on its own: a runtime snapshot and a live patch are
\* in place, the cards of the first view are created, and
\* refreshNodeStatusView applies the statuses.
\* ------------------------------------------------------------------------

Statuses == {"idle", "running", "done", "fail"}

\* An entry of a nodes map: null, or an object whose status may be missing ("").
StatusEntries == {NULL} \cup {[status |-> st] : st \in Statuses \cup {""}}

\* The nodes maps over the ids of ids: every id absent or bound to an entry.
NodeMaps(ids) ==
    UNION {[present -> StatusEntries] : present \in SUBSET ids}

OverlayIds == {"A", "B"}

\* state.runtime: null, a snapshot without a nodes object, or one with it.
OverlayRuntimes == {NULL, [nodes |-> NULL]} \cup {[nodes |-> m] : m \in NodeMaps(OverlayIds)}

\* state.trainerLiveNodes: null or a patch.
OverlayPatches == {NULL} \cup NodeMaps(OverlayIds)

refreshNodeStatusView ==
    /\ nodeElements' = applyNodeStatuses(getCurrentView.nodes, nodeElements,
                                         getEffectiveRuntimeNodes)
    /\ strokes' = renderConnections(getCurrentView.connections,
                                    layout.views[nodeMap].nodes, activeTypes,
                                    getEffectiveRuntimeNodes)
    /\ UNCHANGED <<layout, activeViewIndex, activeTypes, transform, nodeMap, runtime,
                   trainerLiveNodes, nodeDrag, panDrag, capture, pointers, budget>>
    /\ UNCHANGED <<panelVars, init, pageVars>>

InitOverlay ==
    /\ layout = LayoutRegular
    /\ runtime \in OverlayRuntimes
    /\ trainerLiveNodes \in OverlayPatches
    /\ activeViewIndex = 1
    /\ activeTypes = TYPE_META
    /\ transform = DefaultTransform
    /\ nodeMap = 1
    /\ nodeElements = renderNodes(layout.views[1].nodes, activeTypes)
    /\ strokes = << >>
    /\ nodeDrag = NULL
    /\ panDrag = NULL
    /\ capture = {}
    /\ pointers = [p \in PointerIds |-> Up]
    /\ budget = 0
    /\ InitPanelsIdle
    /\ InitPage("ready")

NextOverlay == refreshNodeStatusView

SpecOverlay == InitOverlay /\ [][NextOverlay]_vars

\* ------------------------------------------------------------------------
\* The page with its panels: init() has rendered the graph, filled in the
\* run comparison panel and issued the first status request
\* ------------------------------------------------------------------------

\* The snapshot init() resolved for a select value, its file fetched.
InitResolved(selectionValue, live, index) ==
    IF selectionValue = LIVE_RUN_KEY THEN live
    ELSE IF FindRun(index, selectionValue) = NULL THEN NULL
    ELSE SnapshotFiles[FindRun(index, selectionValue).file]

\* The files init() fetched for the two selects.
InitFetched(live, index) ==
    {FindRun(index, value).file :
        value \in {value \in {PreferredCurrent(index, live),
                              PreferredBaseline(index, live)} :
                      value # LIVE_RUN_KEY /\ FindRun(index, value) # NULL}}

InitPanels(runtimeFiles, indexes) ==
    /\ layout = LayoutRegular
    /\ activeViewIndex = 1
    /\ activeTypes = TYPE_META
    /\ transform = DefaultTransform
    /\ nodeMap = 1
    /\ nodeDrag = NULL
    /\ panDrag = NULL
    /\ capture = {}
    /\ pointers = [p \in PointerIds |-> Up]
    /\ budget = 0
    /\ trainerLiveNodes = NULL
    /\ runtimeLive \in runtimeFiles
    /\ runHistoryIndex \in indexes
    /\ currentRunSelect = PreferredCurrent(runHistoryIndex, runtimeLive)
    /\ baselineRunSelect = PreferredBaseline(runHistoryIndex, runtimeLive)
    /\ runSnapshots = [f \in InitFetched(runtimeLive, runHistoryIndex) |-> SnapshotFiles[f]]
    /\ fetchLog = [f \in Files |->
                      IF f \in InitFetched(runtimeLive, runHistoryIndex)
                      THEN [issued |-> 1, answered |-> 1]
                      ELSE [issued |-> 0, answered |-> 0]]
    /\ selections = [caller \in Callers |-> NULL]
    /\ LET currentRuntime ==
               InitResolved(currentRunSelect, runtimeLive, runHistoryIndex)
           baselineRuntime ==
               InitResolved(baselineRunSelect, runtimeLive, runHistoryIndex)
       IN  /\ runtime = IF currentRuntime # NULL THEN currentRuntime ELSE runtimeLive
           /\ comparisonRows = setComparisonRows(currentRuntime, baselineRuntime)
    /\ checklistList = renderDashboardPanels(runtime).list
    /\ checklistSummary = renderDashboardPanels(runtime).summary
    /\ nodeElements = renderViewNodes(1)
    /\ strokes = renderViewStrokes(1)
    /\ trainerPollId = NULL
    /\ timers = {}
    /\ trainerApiAvailable = TRUE
    /\ trainJobState = ""
    /\ trainControlsEnabled = TRUE
    /\ lastTrainerCompletion = NULL
    /\ requests = {[seq |-> 1, kind |-> "status", by |-> "init"]}
    /\ issued = 1
    /\ statusLog = [newest |-> 0, failedSince |-> FALSE]
    /\ refresh = "idle"
    /\ InitPage("status")

\* The trainer panel of a page without run history: the status requests,
\* the poll timer and the refresh after a training run.
InitTrainer == InitPanels({LiveSnapshot}, {<< >>})

ControlKinds == {"train", "stop"}

SuccessJobs == {job \in JobPayloads : job.state = "success"}

NextTrainer ==
    \/ ClickRefresh
    \/ PollTick
    \/ \E kind \in ControlKinds : ClickControl(kind)
    \/ \E request \in requests, job \in JobPayloads : Respond(request, job)
    \/ \E request \in requests : Fail(request)
    \/ RuntimeDataLoaded(LiveSnapshot)
    \/ \E caller \in Callers : RunIndexLoaded(<< >>, caller)
    \/ RefreshFailed

SpecTrainer == InitTrainer /\ [][NextTrainer]_vars

\* The run comparison panel: the selects, the snapshot files, and the
\* refresh that a training success brings.
InitRuns == InitPanels(RuntimeFiles, RunIndexes)

SelectValues == {LIVE_RUN_KEY} \cup {IndexOfRuns[i].run_id : i \in 1..Len(IndexOfRuns)}

NextRuns ==
    \/ \E which \in {"current", "baseline"}, caller \in Callers, value \in SelectValues :
            ChangeRunSelection(which, value, caller)
    \/ \E caller \in Callers : SnapshotLoaded(caller)
    \/ \E caller \in Callers : SnapshotFailed(caller)
    \/ \E request \in requests, job \in SuccessJobs : Respond(request, job)
    \/ \E file \in RuntimeFiles : RuntimeDataLoaded(file)
    \/ \E index \in RunIndexes, caller \in Callers : RunIndexLoaded(index, caller)
    \/ RefreshFailed

SpecRuns == InitRuns /\ [][NextRuns]_vars

\* ------------------------------------------------------------------------
\* The comparison rows and the checklist panel over many snapshots: the
\* run index is loaded, both snapshot files are memoized, and the user
\* picks runs in the two selects
\* ------------------------------------------------------------------------

\* The seven required items, those at the indexes of passed having passed.
RequiredChecklist(passed) ==
    Arr([i \in 1..Len(REQUIRED_CHECKLIST_TITLES) |->
            Item(i, REQUIRED_CHECKLIST_TITLES[i], i \in passed)])

\* Checklists: absent, the required items with five and with three passed,
\* and a short one out of order, with an unknown title and a repeated index.
Checklists ==
    {NULL,
     RequiredChecklist({1, 2, 3, 4, 5}),
     RequiredChecklist({2, 4, 6}),
     Arr(<<Item(3, "X", TRUE),
           Item(2, "Check TensorBoard logs", FALSE),
           Item(1, "Check trained checkpoints", TRUE),
           Item(2, "Check backup bundle", TRUE)>>)}

\* metrics[stream]: absent, without a loss array, or with a loss series.
StreamMetrics ==
    {NULL,
     [loss |-> NULL],
     [loss |-> Arr(<< >>)],
     [loss |-> Arr(<<Loss(Num(1, 2)), Loss(NaN), Loss(JsNull)>>)],
     [loss |-> Arr(<<Loss(Num(3, 4)), Loss(Num(1, 4)), Loss(JsString), Loss(Undefined), NULL>>)],
     [loss |-> Arr(<<Loss(Infinity), Loss(NaN)>>)],
     [loss |-> Arr(<<Loss(Num(1, 4)), Loss(Num(3, 4))>>)]}

SnapshotWith(checklist, patchtst, swinmae) ==
    [meta |-> [run_id |-> "r3"], nodes |-> NULL, checklist |-> checklist,
     metrics |-> [patchtst |-> patchtst, swinmae |-> swinmae]]

\* Snapshots: every patchtst series under one checklist, every checklist
\* with two swinmae series, and one without metrics.
CompareSnapshots ==
    {SnapshotWith(RequiredChecklist({1, 2, 3, 4, 5}), patchtst, NULL) :
        patchtst \in StreamMetrics}
    \cup {SnapshotWith(checklist, [loss |-> Arr(<<Loss(Num(1, 2))>>)], swinmae) :
            checklist \in Checklists,
            swinmae \in {[loss |-> Arr(<<Loss(Num(1, 2))>>)],
                         [loss |-> Arr(<<Loss(Num(1, 4)), Loss(NaN)>>)]}}
    \cup {[meta |-> [run_id |-> "r3"], nodes |-> NULL, checklist |-> NULL,
           metrics |-> NULL]}

InitCompare ==
    /\ layout = LayoutRegular
    /\ activeViewIndex = 1
    /\ activeTypes = TYPE_META
    /\ transform = DefaultTransform
    /\ nodeMap = 1
    /\ nodeDrag = NULL
    /\ panDrag = NULL
    /\ capture = {}
    /\ pointers = [p \in PointerIds |-> Up]
    /\ budget = 0
    /\ trainerLiveNodes = NULL
    /\ runtimeLive \in CompareSnapshots \cup {NULL}
    /\ runHistoryIndex = IndexOfRuns
    /\ currentRunSelect = PreferredCurrent(runHistoryIndex, runtimeLive)
    /\ baselineRunSelect = PreferredBaseline(runHistoryIndex, runtimeLive)
    /\ runSnapshots \in {[f1 |-> first, f2 |-> SnapshotFiles.f2] : first \in CompareSnapshots}
    /\ fetchLog = [f \in Files |-> [issued |-> 1, answered |-> 1]]
    /\ selections = [caller \in Callers |-> NULL]
    /\ LET current == resolveRuntimeBySelection(currentRunSelect, runtimeLive,
                                                runHistoryIndex, runSnapshots)
           baseline == resolveRuntimeBySelection(baselineRunSelect, runtimeLive,
                                                 runHistoryIndex, runSnapshots)
       IN  /\ runtime = IF current.value # NULL THEN current.value ELSE runtimeLive
           /\ comparisonRows = setComparisonRows(current.value, baseline.value)
    /\ checklistList = renderDashboardPanels(runtime).list
    /\ checklistSummary = renderDashboardPanels(runtime).summary
    /\ nodeElements = renderViewNodes(1)
    /\ strokes = renderViewStrokes(1)
    /\ trainerPollId = NULL
    /\ timers = {}
    /\ trainerApiAvailable = TRUE
    /\ trainJobState = "idle"
    /\ trainControlsEnabled = TRUE
    /\ lastTrainerCompletion = NULL
    /\ requests = {}
    /\ issued = 1
    /\ statusLog = [newest |-> 1, failedSince |-> FALSE]
    /\ refresh = "idle"
    /\ InitPage("ready")

NextCompare ==
    \E which \in {"current", "baseline"}, caller \in Callers, value \in SelectValues :
        ChangeRunSelection(which, value, caller)

SpecCompare == InitCompare /\ [][NextCompare]_vars

\* The answers to the first status request.
InitJobs == {job \in JobPayloads : job.state \in {"idle", "running"}}

\* ------------------------------------------------------------------------
\* The type filter: legend chips, view switches, node drags and the status
\* updates of the trainer panel on one page
\* ------------------------------------------------------------------------

InitFilter == InitOver({LayoutRegular}, InitRuntimes, MaxPointerMoves)

NextFilter ==
    \/ \E type \in ToggleTypes : ToggleType(type)
    \/ \E i \in 1..Len(tabs) : SwitchView(i)
    \/ PointerEvents({1}, Points)
    \/ ClickRefresh
    \/ \E request \in requests, job \in InitJobs : Respond(request, job)
    \/ \E request \in requests : Fail(request)

SpecFilter == InitFilter /\ [][NextFilter]_vars

\* ------------------------------------------------------------------------
\* The connection router over nodes far apart: layouts of one view with a
\* wide canvas and two nodes joined both ways, and a pointer that drags
\* ------------------------------------------------------------------------

\* A layout of one view, node A at (ax, 0) and node B at (bx, by).
LayoutWide(ax, bx, by) ==
    [views |-> <<
        [id |-> "v1", canvas |-> [width |-> R(1400), height |-> R(700)],
         groups |-> << >>,
         nodes |-> [A |-> Node("pi", ax, 0), B |-> Node("tool", bx, by)],
         connections |-> <<Conn("e1", "A", "B"), Conn("e2", "B", "A")>>] >>]

\* Nodes side by side, overlapping, and up to 900 apart.
WideLayouts ==
    {LayoutWide(ax, bx, by) : ax \in {0, 300}, bx \in {0, 100, 700, 900}, by \in {0, 400}}

InitRouter == InitOver(WideLayouts, InitRuntimes, MaxPointerMoves)

NextRouter == PointerEvents({1}, Points)

SpecRouter == InitRouter /\ [][NextRouter]_vars

\* ------------------------------------------------------------------------
\* init() from its start: the fetches of the layout, of the runtime data
\* and of the run index, the first rendering, the first status request
\* ------------------------------------------------------------------------

\* What a fetch gives: it rejects (network error), it answers with a
\* status that is not OK, with a body that is not JSON, or with a document.
Responses(documents) ==
    {[kind |-> "rejected"], [kind |-> "not-ok"], [kind |-> "unparseable"]}
        \cup {[kind |-> "json", body |-> document] : document \in documents}

\* dashboard-layout.json: a layout, a document with an empty views array,
\* one without views, and the document null.
ZeroViews == [meta |-> "m", views |-> << >>]
NoViews == [meta |-> "m"]
LayoutDocuments == {LayoutRegular, LayoutOutside, ZeroViews, NoViews, NULL}

\* loadLayoutData answering with a layout of its own when the fetch fails.
loadLayoutDataWithDefault(response) ==
    IF response.kind = "json" THEN [threw |-> FALSE, value |-> response.body]
    ELSE [threw |-> FALSE, value |-> LayoutRegular]

\* loadLayoutData: the document, or the error thrown.
loadLayoutData(response) ==
    IF response.kind = "json" THEN [threw |-> FALSE, value |-> response.body]
    ELSE [threw |-> TRUE]

\* loadRuntimeData: null for a status that is not OK.
loadRuntimeData(response) ==
    IF response.kind = "json" THEN [threw |-> FALSE, value |-> response.body]
    ELSE IF response.kind = "not-ok" THEN [threw |-> FALSE, value |-> NULL]
    ELSE [threw |-> TRUE]

\* loadRunHistoryIndex: no runs for a status that is not OK.
loadRunHistoryIndex(response) ==
    IF response.kind = "json" THEN [threw |-> FALSE, value |-> response.body]
    ELSE IF response.kind = "not-ok" THEN [threw |-> FALSE, value |-> << >>]
    ELSE [threw |-> TRUE]

\* init(): state.layout.views is read without a TypeError and is an array
\* with a view in it.
HasViews(document) ==
    /\ document # NULL
    /\ "views" \in DOMAIN document
    /\ Len(document.views) > 0

\* The page before init() has got its documents.
InitLoading ==
    /\ layout = NULL
    /\ runtime = NULL
    /\ trainerLiveNodes = NULL
    /\ activeViewIndex = 1
    /\ activeTypes = TYPE_META
    /\ transform = DefaultTransform
    /\ nodeMap = 0
    /\ nodeElements = EmptyObject
    /\ strokes = << >>
    /\ nodeDrag = NULL
    /\ panDrag = NULL
    /\ capture = {}
    /\ pointers = [p \in PointerIds |-> Up]
    /\ budget = MaxPointerMoves
    /\ InitPanelsIdle
    /\ init = "loading"
    /\ tabs = << >>
    /\ legend = {}
    /\ groups = << >>
    /\ listeners = {}

\* init() after Promise.all([loadLayoutData(), loadRuntimeData()]): the
\* catch, or the rendering of the page up to the fetch of the run index in
\* initRunComparisonPanel.
DocumentsLoaded(layoutResponse, runtimeResponse) ==
    /\ init = "loading"
    /\ UNCHANGED <<activeViewIndex, activeTypes, transform, trainerLiveNodes, nodeDrag,
                   panDrag, capture, pointers, budget, runHistoryIndex, runSnapshots,
                   currentRunSelect, baselineRunSelect, selections, fetchLog,
                   comparisonRows, trainerPollId, timers, trainerApiAvailable,
                   trainJobState, trainControlsEnabled, lastTrainerCompletion,
                   requests, issued, statusLog, refresh>>
    /\ LET layoutData == loadLayoutData(layoutResponse)
           runtimeData == loadRuntimeData(runtimeResponse)
       IN  IF layoutData.threw \/ runtimeData.threw
           THEN /\ init' = "failed"
                /\ UNCHANGED <<layout, runtimeLive, runtime, nodeMap, nodeElements,
                               strokes, checklistList, checklistSummary, pageVars>>
           ELSE /\ layout' = layoutData.value
                /\ runtimeLive' = runtimeData.value
                /\ runtime' = runtimeData.value
                /\ IF ~HasViews(layoutData.value)
                   THEN /\ init' = "failed"
                        /\ UNCHANGED <<nodeMap, nodeElements, strokes, checklistList,
                                       checklistSummary, pageVars>>
                   ELSE LET view == layoutData.value.views[activeViewIndex]
                            runtimeNodes ==
                                getEffectiveRuntimeNodesOf(runtimeData.value,
                                                           trainerLiveNodes)
                        IN  /\ tabs' = renderTabs(layoutData.value.views, activeViewIndex)
                            /\ legend' = renderLegend
                            /\ groups' = renderGroups(view.groups)
                            /\ nodeMap' = activeViewIndex
                            /\ nodeElements' =
                                  applyNodeStatuses(view.nodes,
                                                    renderNodes(view.nodes, activeTypes),
                                                    runtimeNodes)
                            /\ strokes' = renderConnections(view.connections, view.nodes,
                                                            activeTypes, runtimeNodes)
                            /\ renderRuntimePanels(runtimeData.value)
                            /\ listeners' = CanvasListeners
                            /\ init' = "index"

\* init() after loadRunHistoryIndex in initRunComparisonPanel: the catch,
\* or the selects filled in and the snapshots of the preselected runs
\* looked up, and once they are there, initTrainingControls.
RunIndexAnswered(response) ==
    /\ init = "index"
    /\ UNCHANGED <<canvasVars, trainerLiveNodes, runtimeLive, runSnapshots,
                   trainerPollId, timers, trainerApiAvailable, trainJobState,
                   trainControlsEnabled, lastTrainerCompletion, statusLog, refresh>>
    /\ LET index == loadRunHistoryIndex(response)
       IN  IF index.threw
           THEN /\ init' = "failed"
                /\ UNCHANGED <<runHistoryIndex, currentRunSelect, baselineRunSelect,
                               comparisonRows, runtime, selections, fetchLog,
                               checklistList, checklistSummary, nodeElements, strokes,
                               requests, issued>>
           ELSE /\ runHistoryIndex' = index.value
                /\ currentRunSelect' = PreferredCurrent(index.value, runtimeLive)
                /\ baselineRunSelect' = PreferredBaseline(index.value, runtimeLive)
                /\ IF index.value = << >>
                   THEN /\ comparisonRows' = setComparisonRows(runtimeLive, NULL)
                        /\ UNCHANGED <<runtime, selections, fetchLog, checklistList,
                                       checklistSummary, nodeElements, strokes>>
                        /\ initTrainingControls
                   ELSE /\ applyRunSelection(
                               InitCaller,
                               ResolveCurrent(runtimeLive, index.value, runSnapshots),
                               runtimeLive, {})
                        /\ IF selections'[InitCaller] = NULL
                           THEN initTrainingControls
                           ELSE init' = "selection" /\ UNCHANGED <<requests, issued>>

NextInit ==
    \/ \E layoutResponse \in Responses(LayoutDocuments),
          runtimeResponse \in Responses(RuntimeFiles) :
            DocumentsLoaded(layoutResponse, runtimeResponse)
    \/ \E response \in Responses(RunIndexes) : RunIndexAnswered(response)
    \/ SnapshotLoaded(InitCaller)
    \/ SnapshotFailed(InitCaller)
    \/ \E request \in requests, job \in InitJobs : Respond(request, job)
    \/ \E request \in requests : Fail(request)
    \/ PointerEvents({1}, Points)
    \/ \E event \in Points, factor \in WheelFactors : Wheel(event, factor)
    \/ \E i \in 1..Len(tabs) : SwitchView(i)

SpecInit == InitLoading /\ [][NextInit]_vars

\* ------------------------------------------------------------------------
\* The poll timer in the long run: the timer fires while it exists and
\* every request in flight is answered
\* ------------------------------------------------------------------------

\* The interval callback once the request numbers are used up: the timer
\* goes on firing, and its requests share the number after the last.
PollTickLate ==
    /\ timers # {}
    /\ issued = MaxRequests
    /\ [seq |-> MaxRequests + 1, kind |-> "status", by |-> "poll"] \notin requests
    /\ requests' = requests \cup {[seq |-> MaxRequests + 1, kind |-> "status",
                                   by |-> "poll"]}
    /\ UNCHANGED <<canvasVars, init, nodeElements, strokes, runtime, trainerLiveNodes,
                   runtimeLive, runHistoryIndex, runSnapshots, currentRunSelect,
                   baselineRunSelect, selections, fetchLog, comparisonRows,
                   checklistList, checklistSummary, trainerPollId, timers,
                   trainerApiAvailable, trainJobState, trainControlsEnabled,
                   lastTrainerCompletion, refresh, issued, statusLog>>

\* The timer fires.
TimerFires == PollTick \/ PollTickLate

NextPolling ==
    \/ ClickRefresh
    \/ PollTick
    \/ PollTickLate
    \/ \E kind \in ControlKinds : ClickControl(kind)
    \/ \E request \in requests, job \in JobPayloads : Respond(request, job)
    \/ \E request \in requests : Fail(request)
    \/ RuntimeDataLoaded(LiveSnapshot)
    \/ \E caller \in Callers : RunIndexLoaded(<< >>, caller)
    \/ RefreshFailed

\* setInterval fires its callback every 3000 ms while the timer exists.
SpecPolling ==
    /\ InitTrainer
    /\ [][NextPolling]_vars
    /\ WF_vars(TimerFires)

\* ------------------------------------------------------------------------
\* The two selects alone: the user changes them while snapshot files are
\* being loaded, and every load succeeds
\* ------------------------------------------------------------------------

NextSelect ==
    \/ \E which \in {"current", "baseline"}, caller \in Callers, value \in SelectValues :
            ChangeRunSelection(which, value, caller)
    \/ \E caller \in Callers : SnapshotLoaded(caller)

SpecSelect == InitRuns /\ [][NextSelect]_vars

\* ------------------------------------------------------------------------
\* The trainer panel when nothing fails: every request is answered with a
\* payload and every refresh of the runtime files runs to its end
\* ------------------------------------------------------------------------

NextRefreshed ==
    \/ ClickRefresh
    \/ PollTick
    \/ \E request \in requests, job \in JobPayloads : Respond(request, job)
    \/ RuntimeDataLoaded(LiveSnapshot)
    \/ \E caller \in Callers : RunIndexLoaded(<< >>, caller)

SpecRefreshed == InitTrainer /\ [][NextRefreshed]_vars

\* ------------------------------------------------------------------------
\* Properties
\* ------------------------------------------------------------------------

ViewIndexes == 1..Len(layout.views)

maxXOf(view) == RSub(view.canvas.width, NODE_DIMENSIONS.width)
maxYOf(view) == RSub(view.canvas.height, NODE_DIMENSIONS.height)

InCanvas(node, view) ==
    /\ RLe(R(0), node.x) /\ RLe(node.x, maxXOf(view))
    /\ RLe(R(0), node.y) /\ RLe(node.y, maxYOf(view))

\* C1: in every reachable state every node of every view lies within
\* [0, canvas.width - 220] x [0, canvas.height - 104], dragged or not.
C1_AllNodesInCanvas ==
    \A v \in ViewIndexes : \A id \in DOMAIN layout.views[v].nodes :
        InCanvas(layout.views[v].nodes[id], layout.views[v])

\* A pointermove that the controller handles as a node drag of pointer p.
NodeDragMove(p, event) ==
    /\ nodeDrag # NULL
    /\ nodeDrag.pointerId = p
    /\ nodeDrag.nodeId \in DOMAIN layout.views[nodeMap].nodes
    /\ PointerMove(p, event)

DraggedNodeAfter == layout'.views[nodeMap].nodes[nodeDrag.nodeId]

C3_ScaleInRange ==
    /\ (Init => transform.scale = Rat(9, 10))
    /\ [](RLe(MIN_ZOOM, transform.scale) /\ RLe(transform.scale, MAX_ZOOM))
    /\ [][/\ \A p \in PointerIds, event \in Points :
                PointerMove(p, event) => transform'.scale = transform.scale
          /\ \A i \in ViewIndexes :
                SwitchView(i) => transform'.scale = Rat(9, 10)]_vars

\* Two wheel-ups have driven the scale into the upper clamp while a pan
\* session is open.
C3_Witness ==
    /\ transform.scale = MAX_ZOOM
    /\ panDrag # NULL

\* C4: for every transform, cursor position and wheel factor, the graph
\* point under the cursor after the wheel event equals the graph point under
\* it before, also when the new scale is clamped.
C4_AnchorPreservingZoom ==
    [][\A event \in Points, factor \in WheelFactors :
          Wheel(event, factor) =>
              toWorldPoint(event, transform') = toWorldPoint(event, transform)]_vars

\* A wheel-down has clamped the scale at 0.5 on a view that had been panned
\* or zoomed before (the offset is no longer the default's).
C4_Witness ==
    /\ transform.scale = MIN_ZOOM
    /\ budget = 0
    /\ transform.x # RSub(R(0), RMul(RDiv(RSub(R(0), DefaultTransform.x),
                                          DefaultTransform.scale), MIN_ZOOM))

\* The connection of the active view a stroke was drawn for.
ConnectionOf(stroke) ==
    CHOOSE c \in {getCurrentView.connections[k] : k \in DOMAIN getCurrentView.connections} :
        c.id = stroke.connectionId

\* The status of node id as the claims state it: the live patch's entry if
\* the patch holds the id, else the snapshot's entry, else idle.
EntryStatus(entry) == IF entry = NULL THEN "idle"
                      ELSE IF entry.status = "" THEN "idle" ELSE entry.status

EffectiveStatus(id) ==
    IF trainerLiveNodes # NULL /\ id \in DOMAIN trainerLiveNodes
    THEN EntryStatus(trainerLiveNodes[id])
    ELSE IF runtime # NULL /\ runtime.nodes # NULL /\ id \in DOMAIN runtime.nodes
    THEN EntryStatus(runtime.nodes[id])
    ELSE "idle"

\* The precedence of the flow states.
FlowState(from, to) ==
    IF from = "fail" \/ to = "fail" THEN "fail"
    ELSE IF from = "running" \/ to = "running" THEN "running"
    ELSE IF from = "done" /\ to = "done" THEN "done"
    ELSE IF (from = "done") # (to = "done") THEN "running"
    ELSE "idle"

\* C5: the flow state of every rendered connection is fail if either end is
\* fail, else running if either is running, else done if both are done, else
\* running if exactly one is done, else idle, an end absent from the status
\* map counting as idle; (fail,running) -> fail, (running,done) -> running,
\* (done,done) -> done, (done,idle) -> running, (idle,idle) -> idle.
C5_FlowStatePrecedence ==
    /\ \A i \in DOMAIN strokes :
          strokes[i].state = FlowState(EffectiveStatus(ConnectionOf(strokes[i]).from),
                                       EffectiveStatus(ConnectionOf(strokes[i]).to))
    /\ FlowState("fail", "running") = "fail"
    /\ FlowState("running", "done") = "running"
    /\ FlowState("done", "done") = "done"
    /\ FlowState("done", "idle") = "running"
    /\ FlowState("idle", "idle") = "idle"

\* The strokes are drawn, the source is done and the target, absent from
\* snapshot and patch alike, is idle: the connection shows running.
C5_Witness ==
    /\ strokes # << >>
    /\ EffectiveStatus("A") = "done"
    /\ (trainerLiveNodes = NULL \/ "B" \notin DOMAIN trainerLiveNodes)
    /\ (runtime = NULL \/ runtime.nodes = NULL \/ "B" \notin DOMAIN runtime.nodes)
    /\ strokes[1].state = "running"

\* C6: after the statuses are applied every card shows the live patch's
\* entry when the patch holds its id, else the snapshot's, else idle (also
\* for a null snapshot); applying them again changes nothing, and neither the
\* snapshot nor the patch is modified.
C6_EffectiveStatusRightBiased ==
    [][refreshNodeStatusView =>
          /\ \A id \in DOMAIN nodeElements' : nodeElements'[id].status = EffectiveStatus(id)
          /\ nodeElements' = applyNodeStatuses(getCurrentView.nodes, nodeElements',
                                               getEffectiveRuntimeNodes)
          /\ runtime' = runtime
          /\ trainerLiveNodes' = trainerLiveNodes]_vars

\* The patch says running for a node the snapshot says done, and the card
\* shows running.
C6_Witness ==
    /\ runtime # NULL /\ runtime.nodes # NULL /\ "A" \in DOMAIN runtime.nodes
    /\ runtime.nodes["A"] = [status |-> "done"]
    /\ trainerLiveNodes # NULL /\ "A" \in DOMAIN trainerLiveNodes
    /\ trainerLiveNodes["A"] = [status |-> "running"]
    /\ nodeElements["A"].status = "running"

\* The drag sessions of the controller.
Sessions == {s \in {[kind |-> "node", session |-> nodeDrag],
                    [kind |-> "pan", session |-> panDrag]} : s.session # NULL}

\* C7: no pointer id owns more than one drag session; none owns a node-drag
\* and a pan session at once.
C7_OneSessionPerPointer ==
    \A p \in PointerIds : Cardinality({s \in Sessions : s.session.pointerId = p}) <= 1

\* Both kinds of session are open, each with its own pointer.
C7_Witness ==
    /\ nodeDrag # NULL
    /\ panDrag # NULL
    /\ nodeDrag.pointerId # panDrag.pointerId

\* C8: while one pointer drags node A, a pointerdown of another pointer on
\* another node B opens a second, independent session: each of the two
\* pointers keeps dragging its own node until its own up, cancel or lost
\* capture.
C8_IndependentNodeDrags ==
    \A p, q \in PointerIds :
        (/\ p # q
         /\ pointers[p].kind = "node" /\ pointers[q].kind = "node"
         /\ pointers[p].node # pointers[q].node)
        => \E s \in Sessions :
              /\ s.kind = "node"
              /\ s.session.pointerId = p
              /\ s.session.nodeId = pointers[p].node

AllPointersUp == \A p \in PointerIds : pointers[p].kind = "up"

EndEvent(p) == PointerUp(p) \/ PointerCancel(p) \/ LostPointerCapture(p)

\* C9: an up, cancel or lost-capture event of pointer p clears the session p
\* owns and leaves p without capture; it changes no session p does not own;
\* once every pointer is up again there is no node-drag and no pan session.
C9_EndClearsSession ==
    /\ [](AllPointersUp => nodeDrag = NULL /\ panDrag = NULL)
    /\ [][\A p \in PointerIds :
             EndEvent(p) =>
                 /\ p \notin capture'
                 /\ \A s \in Sessions : s.session.pointerId = p =>
                       \A t \in Sessions' : t.kind # s.kind
                 /\ nodeDrag # NULL /\ nodeDrag.pointerId # p => nodeDrag' = nodeDrag
                 /\ panDrag # NULL /\ panDrag.pointerId # p => panDrag' = panDrag
                 /\ nodeDrag = NULL => nodeDrag' = NULL
                 /\ panDrag = NULL => panDrag' = NULL]_vars

\* Pointer 1 has dragged a node (the layout is no longer the loaded one) and
\* is up again, its session gone, while pointer 2 still pans.
C9_Witness ==
    /\ layout # LayoutRegular
    /\ pointers[1].kind = "up"
    /\ 1 \notin capture
    /\ nodeDrag = NULL
    /\ panDrag # NULL /\ panDrag.pointerId = 2

\* C10: after a view switch, a pointermove of a pointer whose node-drag or
\* pan session began before the switch changes neither the transform nor the
\* position of any node.
C10_SwitchEndsSessions ==
    [][\A p \in PointerIds, event \in Points :
          (pointers[p].switched /\ PointerMove(p, event)) =>
              transform' = transform /\ layout' = layout]_vars

\* The connections of a view whose two ends are nodes of the view.
ResolvedConnections(view) ==
    SelectSeq(view.connections,
              LAMBDA c : c.from \in DOMAIN view.nodes /\ c.to \in DOMAIN view.nodes)

\* C11: a view switch makes the selected view the active one, sets the
\* transform to x = 70, y = 50, scale = 0.9 whatever it was, and rebuilds the
\* node map, the node cards and the connection strokes from the selected
\* view: one card per node of the view at the node's position, and an echo
\* and a primary stroke per connection of the view between its nodes.
C11_ViewSwitchResets ==
    [][\A i \in ViewIndexes :
          SwitchView(i) =>
              LET view == layout.views[i]
                  kept == ResolvedConnections(view)
              IN  /\ activeViewIndex' = i
                  /\ transform' = [x |-> R(70), y |-> R(50), scale |-> Rat(9, 10)]
                  /\ nodeMap' = i
                  /\ DOMAIN nodeElements' = DOMAIN view.nodes
                  /\ \A id \in DOMAIN view.nodes :
                        /\ nodeElements'[id].x = view.nodes[id].x
                        /\ nodeElements'[id].y = view.nodes[id].y
                        /\ nodeElements'[id].hidden = (view.nodes[id].type \notin activeTypes)
                        /\ nodeElements'[id].status = EffectiveStatus(id)
                        /\ ~nodeElements'[id].dragging
                  /\ Len(strokes') = 2 * Len(kept)
                  /\ \A k \in 1..Len(kept) :
                        /\ strokes'[2 * k - 1].connectionId = kept[k].id
                        /\ strokes'[2 * k].connectionId = kept[k].id
                        /\ strokes'[2 * k].d =
                              getBezierPath(view.nodes[kept[k].from], view.nodes[kept[k].to])
                        /\ strokes'[2 * k].state =
                              FlowState(EffectiveStatus(kept[k].from),
                                        EffectiveStatus(kept[k].to))]_vars

\* The second view is active at the default transform, while a pan that
\* began at another transform, before the switch, is still in progress.
C11_Witness ==
    /\ activeViewIndex = 2
    /\ nodeMap = 2
    /\ transform = DefaultTransform
    /\ budget = MaxMoves - 1
    /\ panDrag # NULL
    /\ panDrag.originX # DefaultTransform.x

\* The response of a status request is processed: the payload is rendered,
\* or the failure is.
StatusAnswered(request) ==
    /\ request.kind = "status"
    /\ \/ \E job \in JobPayloads : Respond(request, job)
       \/ Fail(request)

\* C12: the response of a status request that was issued before another
\* status request whose response has already been processed changes neither
\* the live patch nor the job-state badge nor the poll timer.
C12_StaleResponseIgnored ==
    [][\A request \in requests :
          (request.seq < statusLog.newest /\ StatusAnswered(request)) =>
              UNCHANGED <<trainerLiveNodes, trainJobState, trainerPollId>>]_vars

\* The snapshot file of the run the current select names.
CurrentFile ==
    IF currentRunSelect' = LIVE_RUN_KEY THEN NULL
    ELSE IF FindRun(runHistoryIndex, currentRunSelect') = NULL THEN NULL
    ELSE [file |-> FindRun(runHistoryIndex, currentRunSelect').file]

C15_PollStopsWithJob ==
    /\ [][\A request \in requests, job \in JobPayloads :
             (Respond(request, job) /\ job.state \notin {"running", "stopping"}) =>
                 trainerPollId' = NULL /\ timers' = {}]_vars
    /\ [][\A request \in requests :
             (Fail(request) /\ request.kind = "status") =>
                 trainerPollId' = NULL /\ timers' = {} /\ ~trainerApiAvailable']_vars
    /\ [](Cardinality(timers) <= 1)
    /\ [](timers = IF trainerPollId = NULL THEN {} ELSE {trainerPollId})
    /\ [](timers # {} => trainJobState \in {"running", "stopping"})

\* The poll timer has fired, its request is still in flight, and the
\* response processed since then, of a job that is idle, has stopped the timer.
C15_Witness ==
    /\ \E request \in requests : request.by = "poll"
    /\ trainJobState = "idle"
    /\ trainerApiAvailable
    /\ trainerPollId = NULL
    /\ timers = {}

\* What the failure of a /api/status request leaves: no live patch, the
\* statuses of the runtime snapshot on the node cards, the offline badge and
\* no poll timer.
FailureShown ==
    /\ trainerLiveNodes' = NULL
    /\ \A id \in DOMAIN nodeElements' :
          nodeElements'[id].status =
              IF runtime # NULL /\ runtime.nodes # NULL /\ id \in DOMAIN runtime.nodes
              THEN EntryStatus(runtime.nodes[id]) ELSE "idle"
    /\ trainJobState' = "offline"
    /\ ~trainerApiAvailable'
    /\ trainerPollId' = NULL
    /\ timers' = {}

\* C16 (as claimed): a failed /api/status request clears the live patch,
\* shows the offline state and stops the poll timer, and from then on no
\* request is issued by anything but the user.
C16_NoRequestUntilUser ==
    /\ [][\A request \in requests :
             (Fail(request) /\ request.kind = "status") => FailureShown]_vars
    /\ [][statusLog.failedSince =>
             \A request \in requests' \ requests : request.by = "user"]_vars

\* C16 (amended): a failed /api/status request clears the live patch, shows
\* the offline state, stops the poll timer and issues no request; a request
\* that the user did not trigger is issued only by the poll timer, which
\* runs only after a processed payload of a running or stopping job.
C16_NoRetryOfFailure ==
    /\ [][\A request \in requests :
             (Fail(request) /\ request.kind = "status") =>
                 FailureShown /\ requests' = requests \ {request}]_vars
    /\ [][\A request \in requests' \ requests :
             request.by # "user" =>
                 /\ request.by = "poll"
                 /\ timers # {}
                 /\ trainJobState \in {"running", "stopping"}]_vars

\* A status request has failed while the poll was running: the request of
\* the timer is still in flight, the page is offline and the timer is gone.
C16_Witness ==
    /\ statusLog.failedSince
    /\ trainJobState = "offline"
    /\ trainerLiveNodes = NULL
    /\ timers = {}
    /\ \E request \in requests : request.by = "poll"

\* The three rows that report n/a.
NotApplicableRows ==
    /\ Len(comparisonRows') = 3
    /\ comparisonRows'[1].label = "checklist pass delta"
    /\ comparisonRows'[2].label = "patchtst final val loss delta"
    /\ comparisonRows'[3].label = "swinmae final val loss delta"
    /\ \A k \in 1..3 :
          comparisonRows'[k].value = [text |-> "n/a"] /\ comparisonRows'[k].state = "neutral"

\* The snapshot a select value stands for once its file, if it names one, is read.
SnapshotOf(selectionValue) ==
    IF selectionValue = LIVE_RUN_KEY THEN runtimeLive
    ELSE IF \A i \in 1..Len(runHistoryIndex) : runHistoryIndex[i].run_id # selectionValue
    THEN NULL
    ELSE SnapshotFiles[FindRun(runHistoryIndex, selectionValue).file]

\* The snapshot a select value stands for when the file it names is memoized.
SnapshotOfMemo(selectionValue) ==
    IF selectionValue = LIVE_RUN_KEY THEN runtimeLive
    ELSE IF \A i \in 1..Len(runHistoryIndex) : runHistoryIndex[i].run_id # selectionValue
    THEN NULL
    ELSE runSnapshots[FindRun(runHistoryIndex, selectionValue).file]

\* A step in which the call of applyRunSelection of the caller reaches its end.
SelectionEnds(caller) ==
    /\ selections'[caller] = NULL
    /\ \/ SnapshotLoaded(caller)
       \/ \E which \in {"current", "baseline"}, value \in SelectValues :
             ChangeRunSelection(which, value, caller)

\* The two snapshots the call that ends has resolved: a call that waited
\* for a file resolves the key it read before to that file.
EndingCurrent(caller) ==
    IF selections[caller] = NULL THEN SnapshotOf(currentRunSelect')
    ELSE IF selections[caller].pc = "baseline" THEN selections[caller].currentRuntime
    ELSE SnapshotFiles[selections[caller].file]

EndingBaseline(caller) ==
    IF selections[caller] # NULL /\ selections[caller].pc = "baseline"
    THEN SnapshotFiles[selections[caller].file]
    ELSE SnapshotOf(baselineRunSelect')

\* Select values, those of no run among them.
SelectionKeys == SelectValues \cup {"", "r9"}

\* C17: when the current or the baseline snapshot that a run selection
\* resolves is null, the three comparison rows show n/a with the neutral
\* tag; a key that matches no entry of the run index resolves to null, with
\* no fetch and with the call going on to its end; the live key resolves to
\* the live snapshot with no fetch.
C17_NullSnapshotNotApplicable ==
    /\ [][\A caller \in Callers :
             (SelectionEnds(caller)
                /\ (EndingCurrent(caller) = NULL \/ EndingBaseline(caller) = NULL)) =>
                 NotApplicableRows]_vars
    /\ [][\A index \in RunIndexes, caller \in Callers :
             (RunIndexLoaded(index, caller) /\ index = << >>) =>
                 NotApplicableRows /\ fetchLog' = fetchLog]_vars
    /\ [][\A caller \in Callers :
             (/\ SnapshotLoaded(caller)
              /\ selections[caller].pc = "current"
              /\ baselineRunSelect # LIVE_RUN_KEY
              /\ FindRun(runHistoryIndex, baselineRunSelect) = NULL) =>
                 /\ selections'[caller] = NULL
                 /\ \A f \in Files : fetchLog'[f].issued = fetchLog[f].issued
                 /\ runtime' = SnapshotFiles[selections[caller].file]
                 /\ NotApplicableRows]_vars
    /\ [](\A key \in SelectionKeys :
             LET r == resolveRuntimeBySelection(key, runtimeLive, runHistoryIndex,
                                                runSnapshots)
             IN  /\ key = LIVE_RUN_KEY => r = [fetch |-> FALSE, value |-> runtimeLive]
                 /\ (key # LIVE_RUN_KEY
                       /\ \A i \in 1..Len(runHistoryIndex) : runHistoryIndex[i].run_id # key)
                       => r = [fetch |-> FALSE, value |-> NULL])

\* The run index has been reloaded empty while a selection was reading the
\* file of its current run: the selection has ended with that snapshot
\* shown, its baseline key, which is no run's, resolved to null and the rows
\* at n/a.
C17_Witness ==
    /\ runHistoryIndex = << >>
    /\ baselineRunSelect = ""
    /\ \A caller \in Callers : selections[caller] = NULL
    /\ runtime = SnapshotFiles["f2"]
    /\ fetchLog["f2"].answered = 1
    /\ \A k \in 1..3 : comparisonRows[k].value = [text |-> "n/a"]

\* The snapshots the two selects stand for when no call is waiting.
SelectedCurrent == SnapshotOfMemo(currentRunSelect)
SelectedBaseline == SnapshotOfMemo(baselineRunSelect)

\* The items of a snapshot's checklist, none if it has no checklist.
ItemsOf(snapshot) ==
    IF snapshot = NULL THEN << >>
    ELSE IF snapshot.checklist = NULL THEN << >>
    ELSE snapshot.checklist.items

PassedOf(snapshot) ==
    Cardinality({i \in 1..Len(ItemsOf(snapshot)) : ItemsOf(snapshot)[i].passed})

\* The entries of a stream's loss series, none if the series is absent.
SeriesOf(snapshot, stream) ==
    IF snapshot = NULL THEN << >>
    ELSE IF snapshot.metrics = NULL THEN << >>
    ELSE IF snapshot.metrics[stream] = NULL THEN << >>
    ELSE IF snapshot.metrics[stream].loss = NULL THEN << >>
    ELSE snapshot.metrics[stream].loss.items

\* The positions of a series whose val_loss is a finite number.
FiniteAt(series) ==
    {i \in 1..Len(series) : series[i] # NULL /\ series[i].val_loss.t = "number"}

\* The last finite val_loss of a stream, or NULL.
LastFiniteValLoss(snapshot, stream) ==
    LET series == SeriesOf(snapshot, stream)
        finite == FiniteAt(series)
    IN  IF finite = {} THEN NULL
        ELSE series[CHOOSE i \in finite : \A j \in finite : j <= i].val_loss.v

\* The loss delta of a stream between the selected snapshots, or NULL.
LossDelta(stream) ==
    LET current == LastFiniteValLoss(SelectedCurrent, stream)
        baseline == LastFiniteValLoss(SelectedBaseline, stream)
    IN  IF current = NULL \/ baseline = NULL THEN NULL
        ELSE Rat(current.n * baseline.d - baseline.n * current.d, current.d * baseline.d)

\* The row of a stream shows the delta and its tag.
LossRowShows(row, stream) ==
    LET delta == LossDelta(stream)
    IN  /\ delta = NULL => row.value = [text |-> "n/a"] /\ row.state = "neutral"
        /\ delta # NULL =>
              /\ row.value.text = "fixed"
              /\ row.value.tenThousandths = ToFixed4(delta)
              /\ row.state = IF delta.n < 0 THEN "improved"
                             ELSE IF delta.n > 0 THEN "regressed" ELSE "neutral"

\* C18: with both selected snapshots present, the first row shows
\* passDelta = passed(current) - passed(baseline), tagged improved above 0,
\* regressed below 0 and neutral at 0, and the row of each stream shows
\* lastFiniteValLoss(current) - lastFiniteValLoss(baseline), or n/a when an
\* operand is null, tagged improved below 0, regressed above 0 and neutral
\* at 0 or null.
C18_DeltasAndTags ==
    (SelectedCurrent # NULL /\ SelectedBaseline # NULL) =>
        LET passDelta == PassedOf(SelectedCurrent) - PassedOf(SelectedBaseline)
        IN  /\ comparisonRows[1].value.delta = passDelta
            /\ comparisonRows[1].value.plus = (passDelta >= 0)
            /\ comparisonRows[1].state =
                  IF passDelta > 0 THEN "improved"
                  ELSE IF passDelta < 0 THEN "regressed" ELSE "neutral"
            /\ LossRowShows(comparisonRows[2], "patchtst")
            /\ LossRowShows(comparisonRows[3], "swinmae")

\* Five of seven passed against three of seven: +2, improved; and both loss
\* rows carry a delta, that of patchtst a regression.
C18_Witness ==
    /\ comparisonRows[1].value =
          [text |-> "delta", plus |-> TRUE, delta |-> 2,
           currentPassed |-> 5, currentTotal |-> 7,
           baselinePassed |-> 3, baselineTotal |-> 7]
    /\ comparisonRows[1].state = "improved"
    /\ comparisonRows[3].value.text = "fixed"
    /\ comparisonRows[3].state \in {"improved", "regressed"}

\* C19: finalValLoss returns the val_loss of the last entry of the stream's
\* loss series whose val_loss is a finite number, passing over trailing
\* entries whose val_loss is NaN, infinite, null, missing or not a number,
\* and null when the series is absent, empty or without a finite val_loss.
C19_LastFiniteValLoss ==
    \A snapshot \in {runtimeLive} \cup {runSnapshots[f] : f \in DOMAIN runSnapshots},
       stream \in {"patchtst", "swinmae"} :
        finalValLoss(snapshot, stream) = LastFiniteValLoss(snapshot, stream)

\* The live snapshot is selected, its patchtst series ends with a NaN and a
\* null after 0.5, and the patchtst row shows the delta from 0.5 to the
\* 0.75 of the baseline.
C19_Witness ==
    /\ currentRunSelect = LIVE_RUN_KEY
    /\ runtimeLive # NULL
    /\ SeriesOf(runtimeLive, "patchtst") = <<Loss(Num(1, 2)), Loss(NaN), Loss(JsNull)>>
    /\ LastFiniteValLoss(SelectedBaseline, "patchtst") = Rat(3, 4)
    /\ comparisonRows[2].value.text = "fixed"
    /\ comparisonRows[2].value.tenThousandths = -2500
    /\ comparisonRows[2].state = "improved"

\* The items of the snapshot on show whose title is one of the seven.
AllowedAt(snapshot) ==
    {i \in 1..Len(ItemsOf(snapshot)) :
        \E k \in 1..Len(REQUIRED_CHECKLIST_TITLES) :
            ItemsOf(snapshot)[i].title = REQUIRED_CHECKLIST_TITLES[k]}

AllowedPassedAt(snapshot) == {i \in AllowedAt(snapshot) : ItemsOf(snapshot)[i].passed}

\* The row an item is rendered as.
RowOf(item) ==
    [state |-> IF item.passed THEN "pass" ELSE "fail",
     index |-> item.index, title |-> item.title]

\* The checklist panel shows the allowed items of the snapshot, each once,
\* in ascending index order, and counts them alone.
ChecklistPanelFiltered ==
    /\ Len(checklistList) = Cardinality(AllowedAt(runtime))
    /\ \A i \in AllowedAt(runtime) :
          Cardinality({k \in 1..Len(checklistList) :
                          checklistList[k] = RowOf(ItemsOf(runtime)[i])})
            = Cardinality({j \in AllowedAt(runtime) :
                              RowOf(ItemsOf(runtime)[j]) = RowOf(ItemsOf(runtime)[i])})
    /\ \A k \in 1..(Len(checklistList) - 1) :
          checklistList[k].index <= checklistList[k + 1].index
    /\ checklistSummary = [passed |-> Cardinality(AllowedPassedAt(runtime)),
                           total |-> Cardinality(AllowedAt(runtime))]

\* C20: items with a title outside the allow-list are left out
\* of the checklist rows and of every passed/total count shown for a
\* snapshot, those of the comparison row included; the rows are in
\* ascending index order.
C20_UnknownTitlesExcluded ==
    /\ ChecklistPanelFiltered
    /\ (SelectedCurrent # NULL /\ SelectedBaseline # NULL) =>
          /\ comparisonRows[1].value.currentPassed =
                Cardinality(AllowedPassedAt(SelectedCurrent))
          /\ comparisonRows[1].value.currentTotal =
                Cardinality(AllowedAt(SelectedCurrent))
          /\ comparisonRows[1].value.baselinePassed =
                Cardinality(AllowedPassedAt(SelectedBaseline))
          /\ comparisonRows[1].value.baselineTotal =
                Cardinality(AllowedAt(SelectedBaseline))

\* The layout document of the response cannot be used: the fetch rejected
\* or answered with a status that is not OK, the body is not JSON or is not
\* an object with a views array, or the views array is empty.
LayoutUnusable(response) ==
    \/ response.kind \in {"rejected", "not-ok", "unparseable"}
    \/ response.kind = "json" /\ response.body \in {NULL, NoViews, ZeroViews}

\* Nothing of the graph is on the page and no listener is on the canvas.
NothingRendered ==
    /\ tabs = << >>
    /\ groups = << >>
    /\ DOMAIN nodeElements = {}
    /\ strokes = << >>
    /\ listeners = {}

\* C21: when the layout document cannot be fetched, is not valid structured
\* data or has no view, init() ends in its failure state, and from then on
\* no tab, group, node card or connection stroke exists and no pointer or
\* wheel listener is installed.
C21_LayoutFailureRendersNothing ==
    /\ [][\A layoutResponse \in Responses(LayoutDocuments),
             runtimeResponse \in Responses(RuntimeFiles) :
            (DocumentsLoaded(layoutResponse, runtimeResponse)
                /\ LayoutUnusable(layoutResponse))
            => (init' = "failed" /\ NothingRendered')]_vars
    /\ [][(init = "failed" /\ NothingRendered)
            => (init' = "failed" /\ NothingRendered')]_vars

\* The layout document had an empty views array: init() stored it and
\* failed, the runtime data being there.
C21_Witness ==
    /\ init = "failed"
    /\ layout = ZeroViews
    /\ runtimeLive = LiveSnapshot
    /\ NothingRendered

\* An optional document could not be loaded: the fetch rejected, or
\* answered with a status that is not OK or with a body that is not JSON.
LoadFailure(response) == response.kind \in {"rejected", "not-ok", "unparseable"}

\* The graph of the first view is on the page, every node card idle.
GraphRenderedIdle ==
    /\ HasViews(layout)
    /\ Len(tabs) = Len(layout.views)
    /\ DOMAIN nodeElements = DOMAIN layout.views[1].nodes
    /\ \A id \in DOMAIN nodeElements : nodeElements[id].status = "idle"
    /\ listeners = CanvasListeners

\* C22: with a valid layout, a load failure of the runtime-status document
\* or of the run index (a response that is not OK, a network error, a body
\* that cannot be parsed) does not block the graph: the graph is rendered
\* with every node idle, or the run history is empty, and init() does not
\* go to its failure state.
C22_OptionalLoadFailureDegrades ==
    /\ [][\A layoutResponse \in Responses(LayoutDocuments),
             runtimeResponse \in Responses(RuntimeFiles) :
            (DocumentsLoaded(layoutResponse, runtimeResponse)
                /\ ~LayoutUnusable(layoutResponse) /\ LoadFailure(runtimeResponse))
            => (init' # "failed" /\ GraphRenderedIdle')]_vars
    /\ [][\A response \in Responses(RunIndexes) :
            (RunIndexAnswered(response) /\ LoadFailure(response))
            => (init' # "failed" /\ runHistoryIndex' = << >>)]_vars

\* The positions in strokes of the strokes of a connection id.
StrokesOf(id) == {i \in 1..Len(strokes) : strokes[i].connectionId = id}

\* Both ends of the connection are nodes of the active view.
Resolves(connection) ==
    /\ connection.from \in DOMAIN getCurrentView.nodes
    /\ connection.to \in DOMAIN getCurrentView.nodes

\* C23: a connection whose from or to id is not a node of the active view
\* has no stroke; every other connection has exactly two strokes, an echo
\* and then a primary one, with the same path, the same flow state and the
\* same connection id; and there is no other stroke.
C23_UnresolvedDroppedOthersTwoStrokes ==
    LET connections == getCurrentView.connections
    IN  /\ \A k \in 1..Len(connections) :
              LET at == StrokesOf(connections[k].id)
              IN  IF ~Resolves(connections[k]) THEN at = {}
                  ELSE /\ Cardinality(at) = 2
                       /\ \E i \in at :
                            /\ i + 1 \in at
                            /\ strokes[i].class = "connection-line echo"
                            /\ strokes[i + 1].class = "connection-line"
                            /\ strokes[i].d = strokes[i + 1].d
                            /\ strokes[i].state = strokes[i + 1].state
        /\ \A i \in 1..Len(strokes) :
              \E k \in 1..Len(connections) : connections[k].id = strokes[i].connectionId

\* After a drag in the first view of the regular layout: e1 has its two
\* strokes, e2, which names a node Z of no view, has none.
C23_Witness ==
    /\ budget < MaxMoves
    /\ activeViewIndex = 1
    /\ \E k \in 1..Len(getCurrentView.connections) :
          /\ getCurrentView.connections[k].id = "e2"
          /\ ~Resolves(getCurrentView.connections[k])
    /\ StrokesOf("e2") = {}
    /\ StrokesOf("e1") = {1, 2}
    /\ getCurrentView.nodes["A"].x # R(0)

\* The connection of the active view with the id.
ConnectionWithId(id) ==
    LET connections == getCurrentView.connections
    IN  connections[CHOOSE k \in 1..Len(connections) : connections[k].id = id]

\* The type of a node of the active view is filtered out.
FilteredOut(id) == getCurrentView.nodes[id].type \notin activeTypes

\* A node card is hidden iff its type is filtered out, and a stroke is
\* hidden iff the type of an end of its connection is.
VisibilityFollowsFilter ==
    /\ \A id \in DOMAIN nodeElements : nodeElements[id].hidden <=> FilteredOut(id)
    /\ \A i \in 1..Len(strokes) :
          LET connection == ConnectionWithId(strokes[i].connectionId)
          IN  strokes[i].hidden <=>
                  (FilteredOut(connection.from) \/ FilteredOut(connection.to))

SourceOf(stroke) == getCurrentView.nodes[ConnectionWithId(stroke.connectionId).from]
TargetOf(stroke) == getCurrentView.nodes[ConnectionWithId(stroke.connectionId).to]

\* C25: both anchors of a path are at the vertical centre of their node
\* (y + 52); when source.x <= target.x the path starts at the right edge of
\* the source (source.x + 220) and ends at the left edge of the target
\* (target.x), otherwise it starts at the left edge of the source
\* (source.x) and ends at the right edge of the target (target.x + 220).
C25_AnchorsAtEdgesAndCentre ==
    \A i \in 1..Len(strokes) :
        LET source == SourceOf(strokes[i])
            target == TargetOf(strokes[i])
            path == strokes[i].d
        IN  /\ path.startY = RAdd(source.y, R(52))
            /\ path.endY = RAdd(target.y, R(52))
            /\ IF RLe(source.x, target.x)
               THEN /\ path.startX = RAdd(source.x, R(220))
                    /\ path.endX = target.x
               ELSE /\ path.startX = source.x
                    /\ path.endX = RAdd(target.x, R(220))

\* B at (100, 400) and A at the origin: the path of e1 (A to B) leaves the
\* right edge of A, that of e2 (B to A) leaves the left edge of B and
\* arrives at the right edge of A.
C25_Witness ==
    /\ getCurrentView.nodes["A"].x = R(0)
    /\ getCurrentView.nodes["B"].x = R(100)
    /\ getCurrentView.nodes["B"].y = R(400)
    /\ \E i \in StrokesOf("e1") :
          /\ strokes[i].d.startX = R(220) /\ strokes[i].d.startY = R(52)
          /\ strokes[i].d.endX = R(100) /\ strokes[i].d.endY = R(452)
    /\ \E i \in StrokesOf("e2") :
          /\ strokes[i].d.startX = R(100) /\ strokes[i].d.startY = R(452)
          /\ strokes[i].d.endX = R(220) /\ strokes[i].d.endY = R(52)

\* The curve magnitude of a path over its anchors, in tenths:
\* 5 |endX - startX| + 2 |endY - startY|, kept within 800 and 2900.
CurveTenths(path) ==
    LET raw == RAdd(RMul(R(5), RAbs(RSub(path.endX, path.startX))),
                    RMul(R(2), RAbs(RSub(path.endY, path.startY))))
    IN  IF RLe(raw, R(800)) THEN R(800)
        ELSE IF RLe(R(2900), raw) THEN R(2900) ELSE raw

\* C26: the curve magnitude of every path is
\* clamp(0.5 |endX - startX| + 0.2 |endY - startY|, 80, 290) over its
\* anchors, hence within [80, 290]; the control points are
\* (startX + d curve, startY) and (endX - d curve, endY), d being +1 when
\* startX <= endX and -1 otherwise, so each keeps the y of its anchor.
C26_CurveClampedControlsLevel ==
    \A i \in 1..Len(strokes) :
        LET path == strokes[i].d
            curve == RDiv(CurveTenths(path), R(10))
            offset == IF RLe(path.startX, path.endX) THEN curve ELSE RSub(R(0), curve)
        IN  /\ RLe(R(80), curve) /\ RLe(curve, R(290))
            /\ path.control1X = RAdd(path.startX, offset)
            /\ path.control1Y = path.startY
            /\ path.control2X = RSub(path.endX, offset)
            /\ path.control2Y = path.endY
            /\ RAbs(RSub(path.control1X, path.startX)) = curve
            /\ RAbs(RSub(path.endX, path.control2X)) = curve

\* A at the origin and B at (900, 0): the path of e1 runs right over 680
\* and that of e2 runs left over 680, both with the curve at its upper
\* bound 290 instead of 340.
C26_Witness ==
    /\ getCurrentView.nodes["A"].x = R(0) /\ getCurrentView.nodes["A"].y = R(0)
    /\ getCurrentView.nodes["B"].x = R(900) /\ getCurrentView.nodes["B"].y = R(0)
    /\ \E i \in StrokesOf("e1") :
          /\ strokes[i].d.startX = R(220) /\ strokes[i].d.endX = R(900)
          /\ strokes[i].d.control1X = R(220 + 290)
          /\ strokes[i].d.control2X = R(900 - 290)
    /\ \E i \in StrokesOf("e2") :
          /\ strokes[i].d.startX = R(900) /\ strokes[i].d.endX = R(220)
          /\ strokes[i].d.control1X = R(900 - 290)
          /\ strokes[i].d.control2X = R(220 + 290)

\* The pointermove of the event is that of the pointer that pans.
PanMove(p, event) ==
    /\ PointerMove(p, event)
    /\ panDrag # NULL /\ p = panDrag.pointerId
    /\ ~(nodeDrag # NULL /\ p = nodeDrag.pointerId)

\* C27: the pointerdown that starts a pan records the transform origin and
\* the screen position of the pointer; on every pointermove of the panning
\* pointer transform.(x, y) = origin + (pointer position - position at
\* pointerdown), the scale and every node position are unchanged, and a
\* move back to the pointerdown position restores the origin.
C27_PanFollowsPointer ==
    /\ [][\A p \in PointerIds, event \in Points :
            (PointerDown(p, TRUE, "", event) /\ panDrag' # panDrag) =>
                /\ panDrag'.originX = transform.x /\ panDrag'.originY = transform.y
                /\ panDrag'.startX = event.x /\ panDrag'.startY = event.y
                /\ transform' = transform]_vars
    /\ [][\A p \in PointerIds, event \in Points :
            PanMove(p, event) =>
                /\ RSub(transform'.x, panDrag.originX) = RSub(event.x, panDrag.startX)
                /\ RSub(transform'.y, panDrag.originY) = RSub(event.y, panDrag.startY)
                /\ transform'.scale = transform.scale
                /\ layout' = layout
                /\ (event.x = panDrag.startX /\ event.y = panDrag.startY) =>
                      (transform'.x = panDrag.originX /\ transform'.y = panDrag.originY)]_vars

\* A pan from (8, 4) to (10, 5) after a wheel zoom: the transform is the
\* origin moved by (2, 1), at the scale the zoom left.
C27_Witness ==
    /\ panDrag # NULL
    /\ nodeDrag = NULL
    /\ budget = 0
    /\ transform.scale # DefaultTransform.scale
    /\ panDrag.startX = R(8) /\ panDrag.startY = R(4)
    /\ transform.x = RAdd(panDrag.originX, R(2))
    /\ transform.y = RAdd(panDrag.originY, R(1))

\* toGraphSpace: (screen point - rect origin - pan offset) / scale, per axis.
GraphX(event, t) == RDiv(RSub(RSub(event.x, R(8)), t.x), t.scale)
GraphY(event, t) == RDiv(RSub(RSub(event.y, R(4)), t.y), t.scale)

\* v kept within [0, max].
Within(v, max) == IF RLe(v, R(0)) THEN R(0) ELSE IF RLe(max, v) THEN max ELSE v

\* r is the integer nearest to v, a tie going up.
RoundOf(r, v) ==
    /\ r.d = 1
    /\ RLe(RSub(r, Rat(1, 2)), v)
    /\ ~RLe(RAdd(r, Rat(1, 2)), v)

\* The node the open node-drag session moves.
DraggedNode == layout.views[nodeMap].nodes[nodeDrag.nodeId]

\* C28: the pointerdown on a node records grabOffset = toGraphSpace(pointer,
\* transform of that moment) - node position; each pointermove of that
\* pointer puts the node at round(clamp(toGraphSpace(pointer, transform of
\* this moment) - grabOffset)) per axis, whatever wheel zoom or pan came in
\* between; and a pointermove that asks for the position the node has,
\* as one at the pointerdown position under an unchanged transform does,
\* leaves an in-bounds node with integer coordinates where it was.
C28_DragUsesCurrentTransform ==
    /\ [][\A p \in PointerIds, event \in Points, target \in {"A", "B", "C"} :
            (PointerDown(p, TRUE, target, event) /\ nodeDrag' # nodeDrag) =>
                LET node == layout.views[nodeMap].nodes[target]
                IN  /\ nodeDrag'.nodeId = target
                    /\ nodeDrag'.offsetX = RSub(GraphX(event, transform), node.x)
                    /\ nodeDrag'.offsetY = RSub(GraphY(event, transform), node.y)
                    /\ layout' = layout]_vars
    /\ [][\A p \in PointerIds, event \in Points :
            NodeDragMove(p, event) =>
                LET wantX == RSub(GraphX(event, transform), nodeDrag.offsetX)
                    wantY == RSub(GraphY(event, transform), nodeDrag.offsetY)
                    inBounds == /\ IsInt(DraggedNode.x) /\ IsInt(DraggedNode.y)
                                /\ InCanvas(DraggedNode, getCurrentView)
                IN  /\ RoundOf(DraggedNodeAfter.x, Within(wantX, maxXOf(getCurrentView)))
                    /\ RoundOf(DraggedNodeAfter.y, Within(wantY, maxYOf(getCurrentView)))
                    /\ (inBounds /\ wantX = DraggedNode.x /\ wantY = DraggedNode.y)
                          => layout' = layout]_vars

\* A wheel zoom came between the pointerdown on node A and its pointermove:
\* the grab offset is that of a pointerdown under the first transform with
\* A at the origin, and A is where the move under the zoomed transform puts
\* it, which is not where a move under the first transform would.
C28_Witness ==
    /\ nodeDrag # NULL
    /\ nodeDrag.nodeId = "A"
    /\ activeViewIndex = 1
    /\ budget = 0
    /\ transform.scale # DefaultTransform.scale
    /\ \E down \in Points :
          /\ nodeDrag.offsetX = GraphX(down, DefaultTransform)
          /\ nodeDrag.offsetY = GraphY(down, DefaultTransform)
    /\ \E event \in Points :
          RoundOf(DraggedNode.x,
                  Within(RSub(GraphX(event, transform), nodeDrag.offsetX),
                         maxXOf(getCurrentView)))
    /\ \A event \in Points :
          ~RoundOf(DraggedNode.x,
                   Within(RSub(GraphX(event, DefaultTransform), nodeDrag.offsetX),
                          maxXOf(getCurrentView)))

\* The route between two nodes as they are placed: the anchors at the
\* facing edges and vertical centres, the control points level with them.
RouteBetween(source, target) ==
    LET leftToRight == RLe(source.x, target.x)
        startX == IF leftToRight THEN RAdd(source.x, R(220)) ELSE source.x
        endX == IF leftToRight THEN target.x ELSE RAdd(target.x, R(220))
        startY == RAdd(source.y, R(52))
        endY == RAdd(target.y, R(52))
        ends == [startX |-> startX, startY |-> startY, endX |-> endX, endY |-> endY]
        curve == RDiv(CurveTenths(ends), R(10))
        offset == IF RLe(startX, endX) THEN curve ELSE RSub(R(0), curve)
    IN  [startX |-> startX, startY |-> startY,
         control1X |-> RAdd(startX, offset), control1Y |-> startY,
         control2X |-> RSub(endX, offset), control2Y |-> endY,
         endX |-> endX, endY |-> endY]

\* C29: in every state, after every node-drag move and every view switch,
\* the path of each rendered connection is the route between the positions
\* its two end nodes have now, and every connection of the active view
\* whose ends resolve is rendered: no path lags behind a node.
C29_PathsFollowNodes ==
    /\ \A i \in 1..Len(strokes) :
          strokes[i].d = RouteBetween(SourceOf(strokes[i]), TargetOf(strokes[i]))
    /\ \A k \in 1..Len(getCurrentView.connections) :
          Resolves(getCurrentView.connections[k])
              => StrokesOf(getCurrentView.connections[k].id) # {}

\* Node A of the first view was dragged from (0, 0) to (2, 1), the session
\* still open: the path of e1 starts at (222, 53).
C29_Witness ==
    /\ activeViewIndex = 1
    /\ nodeDrag # NULL
    /\ nodeDrag.nodeId = "A"
    /\ "B" \in DOMAIN getCurrentView.nodes
    /\ getCurrentView.nodes["A"].x = R(2)
    /\ getCurrentView.nodes["A"].y = R(1)
    /\ \E i \in StrokesOf("e1") :
          strokes[i].d.startX = R(222) /\ strokes[i].d.startY = R(53)

\* The controller state: Idle, NodeDragging or PanDragging.
ControllerState ==
    IF nodeDrag # NULL THEN "NodeDragging"
    ELSE IF panDrag # NULL THEN "PanDragging" ELSE "Idle"

\* C30: a wheel event taken in any controller state (Idle, NodeDragging or
\* PanDragging) changes the transform only: the node-drag session (pointer,
\* node, grab offset), the pan session (pointer, origin, start pointer), the
\* captured pointers, the node positions and the placed node cards stay as
\* they were, and so does the controller state.
C30_WheelOnlyZooms ==
    [][\A event \in Points, factor \in WheelFactors :
          Wheel(event, factor) =>
              /\ nodeDrag' = nodeDrag
              /\ panDrag' = panDrag
              /\ capture' = capture
              /\ layout' = layout
              /\ nodeElements' = nodeElements
              /\ ControllerState' = ControllerState
              /\ transform' = WheelTransform(transform, event, factor)]_vars

\* A pan session begun at the default transform is still open after a
\* wheel event changed the scale, and no node has moved.
C30_Witness ==
    /\ ControllerState = "PanDragging"
    /\ panDrag.originX = DefaultTransform.x
    /\ panDrag.originY = DefaultTransform.y
    /\ panDrag.pointerId \in capture
    /\ transform.scale # DefaultTransform.scale
    /\ layout = LayoutRegular

\* From some point on every payload processed is of a job that is neither
\* running nor stopping.
JobStaysEnded ==
    <>[][\A request \in requests, job \in JobPayloads :
            Respond(request, job) => job.state \notin {"running", "stopping"}]_vars

\* Every request issued is answered: time and again no request of any
\* number is in flight.
EveryRequestCompletes ==
    \A seq \in 1..(MaxRequests + 1) :
        []<>(\A request \in requests : request.seq # seq)

\* C31: if from some point on the payloads processed are of a job that is
\* neither running nor stopping, the responses of earlier requests having
\* arrived before, and every request issued is answered, then from some
\* point on no poll timer exists.
C31_PollingEventuallyStops ==
    (JobStaysEnded /\ EveryRequestCompletes)
        => <>[](timers = {} /\ trainerPollId = NULL)

\* The timer has fired and its request is still in flight; a payload of a
\* finished job processed since then has stopped the timer.
C31_Witness ==
    /\ \E request \in requests : request.by = "poll" /\ request.seq < statusLog.newest
    /\ trainJobState \in {"success", "failed"}
    /\ lastTrainerCompletion # NULL
    /\ timers = {}
    /\ trainerPollId = NULL

\* No fetch is in flight: no trainer API request, no refresh of the runtime
\* files and no load of a snapshot file.
NoFetchInFlight ==
    /\ requests = {}
    /\ refresh = "idle"
    /\ \A caller \in Callers : selections[caller] = NULL

\* C32: whenever no fetch is in flight, every node card of the active view
\* shows the effective status of its node (the live patch's, else the
\* snapshot's, else idle) and every rendered connection shows the flow state
\* of the effective statuses of its two ends, also after a refresh of the
\* runtime files or a run selection that ended with an error.
C32_StatusesCurrentWhenQuiet ==
    NoFetchInFlight =>
        /\ \A id \in DOMAIN nodeElements : nodeElements[id].status = EffectiveStatus(id)
        /\ \A i \in DOMAIN strokes :
              strokes[i].state =
                  FlowState(EffectiveStatus(ConnectionOf(strokes[i]).from),
                            EffectiveStatus(ConnectionOf(strokes[i]).to))

\* C33: once every snapshot load has completed, the runtime on the graph and
\* the panels is the snapshot of the run the current select names (the live
\* snapshot when that is null) and the comparison rows compare the snapshots
\* of the runs the two selects name, in whatever order the loads completed.
C33_SelectionShownAfterLoads ==
    (\A caller \in Callers : selections[caller] = NULL) =>
        /\ runtime = IF SnapshotOf(currentRunSelect) # NULL
                     THEN SnapshotOf(currentRunSelect) ELSE runtimeLive
        /\ checklistSummary = renderDashboardPanels(runtime).summary
        /\ comparisonRows = setComparisonRows(SnapshotOf(currentRunSelect),
                                              SnapshotOf(baselineRunSelect))

\* The completion token of a payload: state, finished_at and run_id.
TokenOf(job) ==
    [state |-> job.state, finished_at |-> job.finished_at, run_id |-> job.run_id]

\* A step starts refreshRuntimeFromFiles.
RefreshStarts == refresh # "runtime" /\ refresh' = "runtime"

\* C34: a refresh of the runtime files starts only in a step that processes
\* a status payload whose job state is success and whose completion token
\* differs from the one recorded last; a success payload whose token is the
\* recorded one starts none, so the same payload processed again and again
\* starts one refresh; a success or failed payload leaves its token recorded,
\* and a failed payload starts no refresh.
C34_RefreshOncePerCompletion ==
    /\ [][RefreshStarts =>
             \E request \in requests, job \in JobPayloads :
                 /\ Respond(request, job)
                 /\ job.state = "success"
                 /\ TokenOf(job) # lastTrainerCompletion]_vars
    /\ [][\A request \in requests, job \in JobPayloads :
             (Respond(request, job) /\ job.state \in {"success", "failed"}) =>
                 /\ lastTrainerCompletion' = TokenOf(job)
                 /\ (TokenOf(job) = lastTrainerCompletion \/ job.state = "failed")
                       => refresh' = refresh
                 /\ (TokenOf(job) # lastTrainerCompletion /\ job.state = "success")
                       => RefreshStarts]_vars
    /\ [][\A request \in requests, job \in JobPayloads :
             (Respond(request, job) /\ job.state \notin {"success", "failed"}) =>
                 lastTrainerCompletion' = lastTrainerCompletion /\ refresh' = refresh]_vars

\* The refresh that the success payload started has read the runtime data
\* and dropped the live patch; the same payload, processed again since
\* then, has put its patch back and started no second refresh.
C34_Witness ==
    /\ refresh = "index"
    /\ lastTrainerCompletion = [state |-> "success", finished_at |-> "t1", run_id |-> "r3"]
    /\ trainJobState = "success"
    /\ trainerLiveNodes # NULL
    /\ statusLog.newest >= 2

\* The refresh that a successful job started has run to its end, and the
\* live patch is null.
RefreshCompleted ==
    /\ refresh = "idle"
    /\ lastTrainerCompletion # NULL
    /\ lastTrainerCompletion.state = "success"
    /\ trainerLiveNodes = NULL

\* C35: once the refresh that a successful job started has completed, a
\* status payload that reports that same finished job leaves the live patch
\* null and the node cards at the statuses of the refreshed snapshot.
C35_PatchStaysNullAfterRefresh ==
    [][\A request \in requests, job \in JobPayloads :
          (/\ RefreshCompleted
           /\ Respond(request, job)
           /\ job.state = "success"
           /\ TokenOf(job) = lastTrainerCompletion) =>
              /\ trainerLiveNodes' = NULL
              /\ \A id \in DOMAIN nodeElements' :
                    nodeElements'[id].status =
                        IF runtime' # NULL /\ runtime'.nodes # NULL
                              /\ id \in DOMAIN runtime'.nodes
                        THEN EntryStatus(runtime'.nodes[id]) ELSE "idle"]_vars

\* The node cards that carry the dragging marker.
MarkedDragging == {id \in DOMAIN nodeElements : nodeElements[id].dragging}

\* C36: a node card carries the dragging marker only while the node-drag
\* session is for its node, and once every pointer is up again, the
\* controller being idle, no card carries it, whatever the order of the
\* down, move and up events of the two pointers.
C36_MarkerOnlyWhileDragged ==
    /\ \A id \in MarkedDragging : nodeDrag # NULL /\ nodeDrag.nodeId = id
    /\ (AllPointersUp /\ nodeDrag = NULL /\ panDrag = NULL) => MarkedDragging = {}

\* a < b for rationals.
RLess(a, b) == a.n * b.d < b.n * a.d

\* C37: for every rendered connection, wherever its two nodes are, the
\* first control point is right of the start anchor when the path leaves
\* the right edge of its source and left of it when the path leaves the left
\* edge, and the second control point is left of the end anchor when the
\* path arrives at the left edge of its target and right of it when the path
\* arrives at the right edge: neither end of the curve runs into its node.
C37_ControlPointsOutward ==
    \A i \in 1..Len(strokes) :
        LET path == strokes[i].d
            source == SourceOf(strokes[i])
            target == TargetOf(strokes[i])
        IN  /\ IF path.startX = RAdd(source.x, R(NODE_WIDTH))
               THEN RLess(path.startX, path.control1X)
               ELSE path.startX = source.x /\ RLess(path.control1X, path.startX)
            /\ IF path.endX = target.x
               THEN RLess(path.control2X, path.endX)
               ELSE path.endX = RAdd(target.x, R(NODE_WIDTH))
                      /\ RLess(path.endX, path.control2X)

\* C38: when the comparison row shows counts, the passed count and the total
\* it gives for the current snapshot are the passed count and the total of
\* the checklist summary, which shows that same snapshot, also when the
\* checklist holds items whose title is not in the allow-list.
C38_RowCountsMatchSummary ==
    (SelectedCurrent # NULL /\ SelectedBaseline # NULL /\ runtime = SelectedCurrent) =>
        /\ comparisonRows[1].value.currentPassed = checklistSummary.passed
        /\ comparisonRows[1].value.currentTotal = checklistSummary.total

\* C39: a node-drag move changes the x and y of the dragged node, the node
\* of the rendered view that has the id of the session, and of no other
\* node of any view, and it changes neither the transform nor the
\* filter set nor the runtime snapshot nor the live patch; a view switch
\* changes no position and places every card of the view it shows where its
\* node is, so a dragged node is shown where it was dropped when its view is
\* shown again.
C39_DragMovesOneNodeAndPositionsPersist ==
    /\ [][\A p \in PointerIds, event \in Points :
             NodeDragMove(p, event) =>
                 /\ Len(layout'.views) = Len(layout.views)
                 /\ \A i \in ViewIndexes :
                       /\ DOMAIN layout'.views[i].nodes = DOMAIN layout.views[i].nodes
                       /\ layout'.views[i].canvas = layout.views[i].canvas
                       /\ layout'.views[i].connections = layout.views[i].connections
                       /\ \A id \in DOMAIN layout.views[i].nodes :
                             /\ layout'.views[i].nodes[id].type
                                   = layout.views[i].nodes[id].type
                             /\ (i # nodeMap \/ id # nodeDrag.nodeId) =>
                                   layout'.views[i].nodes[id] = layout.views[i].nodes[id]
                 /\ transform' = transform
                 /\ activeTypes' = activeTypes
                 /\ runtime' = runtime
                 /\ trainerLiveNodes' = trainerLiveNodes]_vars
    /\ [][\A i \in ViewIndexes :
             SwitchView(i) =>
                 /\ layout' = layout
                 /\ \A id \in DOMAIN layout.views[i].nodes :
                       /\ nodeElements'[id].x = layout.views[i].nodes[id].x
                       /\ nodeElements'[id].y = layout.views[i].nodes[id].y]_vars

\* Node A of the first view was dragged to (2, 1); the second view was
\* shown, where the drag went on and moved that view's node A; the first
\* view is shown again with its node A at (2, 1) and node B where it was.
C39_Witness ==
    /\ activeViewIndex = 1
    /\ nodeMap = 1
    /\ DOMAIN layout.views[1].nodes = {"A", "B"}
    /\ DOMAIN layout.views[2].nodes = {"A", "C"}
    /\ layout.views[1].nodes["A"].x = R(2)
    /\ layout.views[1].nodes["A"].y = R(1)
    /\ layout.views[1].nodes["B"] = LayoutRegular.views[1].nodes["B"]
    /\ layout.views[2].nodes["A"] # LayoutRegular.views[2].nodes["A"]
    /\ layout.views[2].nodes["C"] = LayoutRegular.views[2].nodes["C"]
    /\ nodeElements["A"].x = R(2)
    /\ nodeElements["A"].y = R(1)

\* C40: when the snapshot file of a run that init() preselected cannot be
\* loaded, init() goes on: the graph stays rendered with its listeners, the
\* training controls are wired, the first status request is issued, and the
\* status line does not report a failed initialization.
C40_InitSurvivesSnapshotFailure ==
    [][(init = "selection" /\ SnapshotFailed(InitCaller)) =>
          /\ init' \in {"status", "ready"}
          /\ \E request \in requests' : request.kind = "status" /\ request.by = "init"
          /\ nodeElements' = nodeElements /\ DOMAIN nodeElements' # {}
          /\ strokes' = strokes
          /\ tabs' = tabs
          /\ listeners' = CanvasListeners]_vars

====
